---- MODULE Spec2Model ----
(***************************************************************************)
(* A model of the Zilliqa insights MCP server: the time-series parsers,    *)
(* the ranking tails of the four top-N tools and the life of one tool      *)
(* invocation (roster fetch, validator resolution, downstream client,      *)
(* queries, result).                                                       *)
(*                                                                         *)
(* Numbers: metric values are integers.  Times are integers counted in     *)
(* minutes.  A JavaScript object used as a map (Record<string, number>)    *)
(* is a sequence of <<key, value>> pairs with distinct keys, in insertion  *)
(* order, which is the order Object.keys / Object.entries enumerate        *)
(* non-numeric string keys in.                                             *)
(***************************************************************************)
EXTENDS Integers, Sequences, FiniteSets, TLC

VARIABLES
    content,    \* parsers: the `content` of a downstream tool-call result
    parsed,     \* parsers: the last parser call, [fn, key, res]
    rankIn,     \* ranking: the per-validator maps a ranking tool holds, and its limit
    ranked,     \* ranking: the last ranking, [tool, top]
    tool,       \* invocation: the tool called, "none" before the call
    args,       \* invocation: its arguments [validator, startTime, endTime, limit]
    pc,         \* invocation: where the call stands: "idle", "connect", "action", "close", "return", "done"
    phase,      \* invocation: which withMcpClient call runs: "roster" (getValidators) or "main"
    step,       \* invocation: the query the action of the "main" call is at
    now,        \* the clock, as the last `new Date()` read it
    win,        \* invocation: the window the tool computed, [start, end, at, text]
    clients,    \* the downstream clients created so far, [phase, st], in creation order
    queries,    \* the list_time_series calls sent so far, in sending order
    inflight,   \* the calls of a Promise.all that have not settled
    pending,    \* what the running withMcpClient call returns once `finally` is through
    roster,     \* what getValidators returned
    vinfo,      \* the record findValidator returned
    acc,        \* what the action of the "main" call has parsed so far
    failures,   \* the downstream failures so far, [phase, at, message, swallowed]
    result,     \* the settled tool-handler promise, [st, status, reason, data]
    findIn,     \* resolver: the arguments of a findValidator call, [identifier, validators]
    findOut,    \* resolver: [called, res], res what the call returned or threw
    variant,    \* HTTP mode: which index.ts runs: "session", "keepalive" or "stateless"
    transports, \* HTTP mode: the session map, <<session id, transport>> in insertion order
    created,    \* HTTP mode: the transports created so far, [st, sessionId, keepAlive]
    reqs,       \* HTTP mode: the requests in flight and the request answered last
    stopped     \* HTTP mode: shutdown has run

parseVars == <<content, parsed>>
rankVars == <<rankIn, ranked>>
toolVars == <<tool, args, pc, phase, step, now, win, clients, queries, inflight, pending,
              roster, vinfo, acc, failures, result>>
findVars == <<findIn, findOut>>
httpVars == <<variant, transports, created, reqs, stopped>>
vars == <<content, parsed, rankIn, ranked, tool, args, pc, phase, step, now, win, clients,
          queries, inflight, pending, roster, vinfo, acc, failures, result, findIn, findOut,
          variant, transports, created, reqs, stopped>>

(***************************************************************************)
(* Bounds                                                                  *)
(***************************************************************************)
\* the longest time-series array of a downstream response
MaxSeries == 2
\* the most validators a ranking tool holds values for
MaxEntities == 5
\* the largest limit a caller asks for
MaxLimit == 3

(***************************************************************************)
(* JavaScript values                                                       *)
(***************************************************************************)
\* a returned value / a thrown exception
Ret(v) == [threw |-> FALSE, v |-> v]
Throw(e) == [threw |-> TRUE, v |-> e]

\* insertion-ordered maps
EmptyMap == << >>
MapKeys(m) == {m[i][1] : i \in 1..Len(m)}
MapHas(m, k) == \E i \in 1..Len(m) : m[i][1] = k
MapGet(m, k) == LET i == CHOOSE j \in 1..Len(m) : m[j][1] = k IN m[i][2]
MapSet(m, k, v) ==
    IF MapHas(m, k)
    THEN [i \in 1..Len(m) |-> IF m[i][1] = k THEN <<k, v>> ELSE m[i]]
    ELSE Append(m, <<k, v>>)

\* Number(s) of a string of decimal digits
RECURSIVE NumberOfDigits(_)
NumberOfDigits(d) ==
    IF d = << >> THEN 0
    ELSE 10 * NumberOfDigits(SubSeq(d, 1, Len(d) - 1)) + d[Len(d)]

(***************************************************************************)
(* Downstream responses (the shapes of section 3 of the spec, and the      *)
(* malformed ones)                                                         *)
(***************************************************************************)
NoNumber == [t |-> "absent", n |-> 0]
NoDigits == [t |-> "absent", d |-> << >>]

\* a point: {value?: {doubleValue?, int64Value?}}
PointNoValue == [hasValue |-> FALSE, dv |-> NoNumber, iv |-> NoDigits]
PointOf(dv, iv) == [hasValue |-> TRUE, dv |-> dv, iv |-> iv]
Double(n) == PointOf([t |-> "number", n |-> n], NoDigits)

\* the `points` of a series: absent, or an array
NoPoints == [has |-> FALSE, list |-> << >>]
PointsOf(l) == [has |-> TRUE, list |-> l]
PointLists ==
    {NoPoints,
     PointsOf(<< >>),
     PointsOf(<<PointNoValue, Double(100)>>),
     PointsOf(<<PointOf(NoNumber, NoDigits)>>),
     PointsOf(<<Double(100), Double(250)>>),
     PointsOf(<<Double(250)>>),
     PointsOf(<<PointOf(NoNumber, [t |-> "digits", d |-> <<7>>])>>),
     PointsOf(<<PointOf([t |-> "number", n |-> 100], [t |-> "digits", d |-> <<7>>])>>),
     PointsOf(<<PointOf([t |-> "string", n |-> 0], [t |-> "digits", d |-> <<1, 0, 0>>])>>)}

\* the `metric` of a series: absent, without labels, or with a label map
LabelKeys == {"validator", "address"}
NoLabels == [k \in {} |-> ""]
MetricAbsent == [has |-> FALSE, hasLabels |-> FALSE, labels |-> NoLabels]
MetricNoLabels == [has |-> TRUE, hasLabels |-> FALSE, labels |-> NoLabels]
MetricOf(l) == [has |-> TRUE, hasLabels |-> TRUE, labels |-> l]
Metrics ==
    {MetricAbsent,
     MetricOf("validator" :> ""),
     MetricOf(("validator" :> "A") @@ ("address" :> "B")),
     MetricOf(("validator" :> "B") @@ ("address" :> "B"))}
GroupNames == {"A", "B"}

SeriesSet == [metric : Metrics, points : PointLists]

RECURSIVE SeqsUpTo(_, _)
SeqsUpTo(S, n) ==
    IF n = 0 THEN {<< >>}
    ELSE LET shorter == SeqsUpTo(S, n - 1)
         IN shorter \cup {Append(s, x) : s \in {t \in shorter : Len(t) = n - 1}, x \in S}

\* the text of the first content part, by what JSON.parse makes of it
JsonBad == [j |-> "bad", arr |-> << >>]
JsonNotArray == [j |-> "notarray", arr |-> << >>]
JsonArray(a) == [j |-> "array", arr |-> a]

\* `content`: absent, [], [a part that is not text], [{type: "text", text}]
ContentAbsent == [c |-> "absent", text |-> JsonBad]
ContentEmpty == [c |-> "empty", text |-> JsonBad]
ContentNoText == [c |-> "notext", text |-> JsonBad]
ContentText(t) == [c |-> "text", text |-> t]

Contents ==
    {ContentAbsent, ContentEmpty, ContentNoText, ContentText(JsonBad), ContentText(JsonNotArray)}
        \cup {ContentText(JsonArray(a)) : a \in SeqsUpTo(SeriesSet, MaxSeries)}

\* JSON.parse
JSONparse(t) == IF t.j = "bad" THEN Throw("SyntaxError") ELSE Ret(t)

\* Array.isArray(content) && content.length > 0 && typeof content[0].text === 'string'
HasTextPart(c) == c.c = "text"

(***************************************************************************)
(* The parsers                                                             *)
(***************************************************************************)
\* series?.points?.[0]?.value, truthy
FirstValue(ts) ==
    IF ts.points.has /\ Len(ts.points.list) > 0 /\ ts.points.list[1].hasValue
    THEN [found |-> TRUE, vc |-> ts.points.list[1]]
    ELSE [found |-> FALSE, vc |-> PointNoValue]

\* a variant that prefers int64Value to doubleValue
NumberIn_Int64First(vc) ==
    IF vc.iv.t # "absent" THEN [found |-> TRUE, n |-> NumberOfDigits(vc.iv.d)]
    ELSE IF vc.dv.t = "number" THEN [found |-> TRUE, n |-> vc.dv.n]
    ELSE [found |-> FALSE, n |-> 0]
\* typeof vc.doubleValue === 'number' ? vc.doubleValue
\*   : typeof vc.int64Value !== 'undefined' ? Number(vc.int64Value) : (nothing)
NumberIn(vc) ==
    IF vc.dv.t = "number" THEN [found |-> TRUE, n |-> vc.dv.n]
    ELSE IF vc.iv.t # "absent" THEN [found |-> TRUE, n |-> NumberOfDigits(vc.iv.d)]
    ELSE [found |-> FALSE, n |-> 0]

\* the reducer of parseTimeSeriesValue
RECURSIVE ReduceSum(_, _, _)
ReduceSum(arr, i, total) ==
    IF i > Len(arr) THEN total
    ELSE LET fv == FirstValue(arr[i])
             num == NumberIn(fv.vc)
         IN ReduceSum(arr, i + 1, IF fv.found /\ num.found THEN total + num.n ELSE total)

parseTimeSeriesValue(c) ==
    IF HasTextPart(c)
    THEN LET p == JSONparse(c.text)
         IN IF p.threw THEN Ret(0)
            ELSE IF p.v.j = "array" /\ Len(p.v.arr) > 0
                 THEN Ret(ReduceSum(p.v.arr, 1, 0))
                 ELSE Ret(0)
    ELSE Ret(0)

\* a variant that adds up the series as parseTimeSeriesValue does
parseTimeSeriesLatestValue_Sum(c) == parseTimeSeriesValue(c)
parseTimeSeriesLatestValue(c) ==
    IF HasTextPart(c)
    THEN LET p == JSONparse(c.text)
         IN IF p.threw THEN Ret(0)
            ELSE IF p.v.j = "array" /\ Len(p.v.arr) > 0
                 THEN LET fv == FirstValue(p.v.arr[1])
                          num == NumberIn(fv.vc)
                      IN IF fv.found /\ num.found THEN Ret(num.n) ELSE Ret(0)
                 ELSE Ret(0)
    ELSE Ret(0)

\* (ts?.metric?.labels || {})[labelKey]; "" stands for undefined as well: both are falsy
GroupValue(ts, labelKey) ==
    IF ts.metric.has /\ ts.metric.hasLabels /\ labelKey \in DOMAIN ts.metric.labels
    THEN ts.metric.labels[labelKey]
    ELSE ""

\* a variant of the loop that assigns the value instead of adding it
RECURSIVE GroupSumLoop_Overwrite(_, _, _, _)
GroupSumLoop_Overwrite(arr, i, labelKey, totals) ==
    IF i > Len(arr) THEN totals
    ELSE LET ts == arr[i]
             groupValue == GroupValue(ts, labelKey)
             fv == FirstValue(ts)
             num == NumberIn(fv.vc)
             value == IF fv.found /\ num.found THEN num.n ELSE 0
         IN IF groupValue = ""
            THEN GroupSumLoop_Overwrite(arr, i + 1, labelKey, totals)
            ELSE GroupSumLoop_Overwrite(arr, i + 1, labelKey, MapSet(totals, groupValue, value))

\* the loop of parseTimeSeriesGroupSum
RECURSIVE GroupSumLoop(_, _, _, _)
GroupSumLoop(arr, i, labelKey, totals) ==
    IF i > Len(arr) THEN totals
    ELSE LET ts == arr[i]
             groupValue == GroupValue(ts, labelKey)
             fv == FirstValue(ts)
             num == NumberIn(fv.vc)
             value == IF fv.found /\ num.found THEN num.n ELSE 0
             before == IF MapHas(totals, groupValue) THEN MapGet(totals, groupValue) ELSE 0
         IN IF groupValue = ""
            THEN GroupSumLoop(arr, i + 1, labelKey, totals)
            ELSE GroupSumLoop(arr, i + 1, labelKey, MapSet(totals, groupValue, before + value))

\* a variant without the try/catch around JSON.parse
parseTimeSeriesGroupSum_NoCatch(c, labelKey) ==
    IF HasTextPart(c)
    THEN LET p == JSONparse(c.text)
         IN IF p.threw THEN p
            ELSE IF p.v.j = "array" /\ Len(p.v.arr) > 0
                 THEN Ret(GroupSumLoop(p.v.arr, 1, labelKey, EmptyMap))
                 ELSE Ret(EmptyMap)
    ELSE Ret(EmptyMap)

parseTimeSeriesGroupSum(c, labelKey) ==
    IF HasTextPart(c)
    THEN LET p == JSONparse(c.text)
         IN IF p.threw THEN Ret(EmptyMap)
            ELSE IF p.v.j = "array" /\ Len(p.v.arr) > 0
                 THEN Ret(GroupSumLoop(p.v.arr, 1, labelKey, EmptyMap))
                 ELSE Ret(EmptyMap)
    ELSE Ret(EmptyMap)

\* the loop of parseTimeSeriesGroupLatest
RECURSIVE GroupLatestLoop(_, _, _, _)
GroupLatestLoop(arr, i, labelKey, latest) ==
    IF i > Len(arr) THEN latest
    ELSE LET ts == arr[i]
             groupValue == GroupValue(ts, labelKey)
             fv == FirstValue(ts)
             num == NumberIn(fv.vc)
         IN IF groupValue = "" \/ MapHas(latest, groupValue)
            THEN GroupLatestLoop(arr, i + 1, labelKey, latest)
            ELSE IF fv.found /\ num.found
                 THEN GroupLatestLoop(arr, i + 1, labelKey, MapSet(latest, groupValue, num.n))
                 ELSE GroupLatestLoop(arr, i + 1, labelKey, latest)

parseTimeSeriesGroupLatest(c, labelKey) ==
    IF HasTextPart(c)
    THEN LET p == JSONparse(c.text)
         IN IF p.threw THEN Ret(EmptyMap)
            ELSE IF p.v.j = "array" /\ Len(p.v.arr) > 0
                 THEN Ret(GroupLatestLoop(p.v.arr, 1, labelKey, EmptyMap))
                 ELSE Ret(EmptyMap)
    ELSE Ret(EmptyMap)

(***************************************************************************)
(* The invocation before any tool is called                                *)
(***************************************************************************)
\* the instant the clock shows at the start
Now0 == 20000

\* an optional ISO-8601 argument: not supplied, a string Date cannot parse, or
\* a string Date parses to the instant t (an empty string is falsy and is
\* treated by the code as not supplied)
TimeAbsent == [k |-> "absent", t |-> 0]
TimeInvalid == [k |-> "invalid", t |-> 0]
TimeOf(t) == [k |-> "date", t |-> t]

\* params.limit not supplied
LimitAbsent == 0

NoArgs == [validator |-> "", startTime |-> TimeAbsent, endTime |-> TimeAbsent,
           limit |-> LimitAbsent]
NoWindow == [start |-> 0, end |-> 0, at |-> 0, text |-> "none"]
NoStep == [name |-> "none", i |-> 0]

\* the JSON envelopes {status, reason | data}
NoReason == [kind |-> "none", arg |-> ""]
NoData == [kind |-> "none"]
NoEnvelope == [status |-> "none", reason |-> NoReason, data |-> NoData]
Failed(reason) == [status |-> "failed", reason |-> reason, data |-> NoData]
Success(data) == [status |-> "success", reason |-> NoReason, data |-> data]

\* what withMcpClient returns: {content: []}, {content: [{type: 'json', data}]}
\* or {content: [{type: 'text', text: JSON.stringify(envelope)}]}
NoPending == [kind |-> "none", env |-> NoEnvelope, data |-> << >>]
PendingEmpty == [kind |-> "empty", env |-> NoEnvelope, data |-> << >>]
PendingJson(d) == [kind |-> "json", env |-> NoEnvelope, data |-> d]
PendingText(env) == [kind |-> "text", env |-> env, data |-> << >>]

\* an element of the roster: a label map, or undefined
Undefined == [defined |-> FALSE, f |-> NoLabels]
Defined(f) == [defined |-> TRUE, f |-> f]

\* the tool-handler promise: pending, resolved with one text part holding an
\* envelope, or rejected with an error
NoResult == [st |-> "none", env |-> NoEnvelope, error |-> "none"]
Resolved(env) == [st |-> "resolved", env |-> env, error |-> "none"]
Rejected(e) == [st |-> "rejected", env |-> NoEnvelope, error |-> e]

NoAcc == [k \in {} |-> 0]

\* no findValidator call
NoFindIn == [identifier |-> "", validators |-> << >>]
NoFindOut == [called |-> FALSE, res |-> Ret(Undefined)]
FindIdle == findIn = NoFindIn /\ findOut = NoFindOut

\* no HTTP server
HttpIdle ==
    /\ variant = "none"
    /\ transports = << >>
    /\ created = << >>
    /\ reqs = {}
    /\ stopped = FALSE

ToolIdle ==
    /\ tool = "none"
    /\ args = NoArgs
    /\ pc = "idle"
    /\ phase = "none"
    /\ step = NoStep
    /\ now = Now0
    /\ win = NoWindow
    /\ clients = << >>
    /\ queries = << >>
    /\ inflight = {}
    /\ pending = NoPending
    /\ roster = << >>
    /\ vinfo = Undefined
    /\ acc = NoAcc
    /\ failures = << >>
    /\ result = NoResult

(***************************************************************************)
(* The parsers applied to a downstream response                            *)
(***************************************************************************)
NotParsed == [fn |-> "none", key |-> "", res |-> Ret(0)]
NoRankIn == [es |-> << >>, limit |-> 1]
NotRanked == [tool |-> "none", top |-> << >>]

InitParse ==
    /\ content \in Contents
    /\ parsed = NotParsed
    /\ rankIn = NoRankIn
    /\ ranked = NotRanked
    /\ ToolIdle
    /\ FindIdle
    /\ HttpIdle

CallParseValue ==
    /\ parsed' = [fn |-> "parseTimeSeriesValue", key |-> "", res |-> parseTimeSeriesValue(content)]
    /\ UNCHANGED <<content, rankVars, toolVars, findVars, httpVars>>

CallParseLatestValue ==
    /\ parsed' = [fn |-> "parseTimeSeriesLatestValue", key |-> "",
                  res |-> parseTimeSeriesLatestValue(content)]
    /\ UNCHANGED <<content, rankVars, toolVars, findVars, httpVars>>

CallParseGroupSum ==
    /\ \E labelKey \in LabelKeys :
          parsed' = [fn |-> "parseTimeSeriesGroupSum", key |-> labelKey,
                     res |-> parseTimeSeriesGroupSum(content, labelKey)]
    /\ UNCHANGED <<content, rankVars, toolVars, findVars, httpVars>>

CallParseGroupLatest ==
    /\ parsed' = [fn |-> "parseTimeSeriesGroupLatest", key |-> "validator",
                  res |-> parseTimeSeriesGroupLatest(content, "validator")]
    /\ UNCHANGED <<content, rankVars, toolVars, findVars, httpVars>>

NextParse ==
    \/ CallParseValue
    \/ CallParseLatestValue
    \/ CallParseGroupSum
    \/ CallParseGroupLatest

SpecParse == InitParse /\ [][NextParse]_vars

(***************************************************************************)
(* The ranking tails of the four top-N tools                               *)
(***************************************************************************)
\* limit: number = 5
DefaultLimit == 5

Max(a, b) == IF a >= b THEN a ELSE b
Min(a, b) == IF a <= b THEN a ELSE b

\* m[k] || 0
GetOr0(m, k) == IF MapHas(m, k) THEN MapGet(m, k) ELSE 0

\* Array.prototype.sort((a, b) => b.val - a.val): stable, descending
InsertDescending(sorted, e) ==
    LET before == {i \in 1..Len(sorted) : sorted[i].val >= e.val}
        n == Cardinality(before)
    IN SubSeq(sorted, 1, n) \o <<e>> \o SubSeq(sorted, n + 1, Len(sorted))

\* a variant that sorts ascending
RECURSIVE SortAscending(_)
SortAscending(s) ==
    IF s = << >> THEN << >>
    ELSE LET rest == SortAscending(SubSeq(s, 1, Len(s) - 1))
             e == s[Len(s)]
             n == Cardinality({i \in 1..Len(rest) : rest[i].val <= e.val})
         IN SubSeq(rest, 1, n) \o <<e>> \o SubSeq(rest, n + 1, Len(rest))

RECURSIVE SortDescending(_)
SortDescending(s) ==
    IF s = << >> THEN << >>
    ELSE InsertDescending(SortDescending(SubSeq(s, 1, Len(s) - 1)), s[Len(s)])

\* Array.prototype.slice(0, n), n >= 0
Slice(s, n) == SubSeq(s, 1, Min(n, Len(s)))

\* .sort(...).slice(0, Math.max(1, limit))
SortAndSlice(entries, limit) == Slice(SortDescending(entries), Max(1, limit))

\* `${rate.toFixed(2)}%` of rate = (success / total) * 100, total > 0, as the
\* number of hundredths of a percent the string shows (parseFloat reads it back)
RateToFixed2(success, total) == (2 * 10000 * success + total) \div (2 * total)

\* the string 'N/A (0 ... attempted)'
NotApplicable == -1

\* Object.entries(latestByValidator).map(...).sort(...).slice(...)
RankByValue(valueByKey, limit) ==
    SortAndSlice([i \in 1..Len(valueByKey) |->
                    [key |-> valueByKey[i][1], val |-> valueByKey[i][2]]], limit)

\* the entry of one validator in a success-rate ranking
RateEntry(public_key, total, success) ==
    [key |-> public_key,
     val |-> IF total > 0 THEN RateToFixed2(success, total) ELSE NotApplicable]

\* a variant of the filter's test that keeps every entry
KeepAll(e) == TRUE

\* e => e.proposer_success_rate !== 'N/A (0 proposals attempted)'
IsApplicable(e) == e.val # NotApplicable

\* Array.prototype.filter with that test
RECURSIVE FilterApplicable(_)
FilterApplicable(s) ==
    IF s = << >> THEN << >>
    ELSE IF IsApplicable(s[1]) THEN <<s[1]>> \o FilterApplicable(Tail(s))
         ELSE FilterApplicable(Tail(s))

\* Object.keys(totals).map(...).filter(...).sort(...).slice(...) of getTopProposerSuccessRate
RankProposers(totals, proposed, missedNextMissed, limit) ==
    SortAndSlice(
        FilterApplicable([i \in 1..Len(totals) |->
                  RateEntry(totals[i][1], GetOr0(totals, totals[i][1]),
                            GetOr0(proposed, totals[i][1])
                              + GetOr0(missedNextMissed, totals[i][1]))]),
        limit)

\* ... of getTopCosignerSuccessRate
RankCosigners(totals, successful, limit) ==
    SortAndSlice(
        FilterApplicable([i \in 1..Len(totals) |->
                  RateEntry(totals[i][1], GetOr0(totals, totals[i][1]),
                            GetOr0(successful, totals[i][1]))]),
        limit)

\* what the queries of a ranking tool returned for one validator: its value in
\* the first map (stake, earnings, total attempts) and in the success maps,
\* where 0 in a success map stands for a validator absent from it
EntityData ==
    {[total |-> 0, a |-> 0, b |-> 1],
     [total |-> 100, a |-> 100, b |-> 0],
     [total |-> 250, a |-> 100, b |-> 1],
     [total |-> 3, a |-> 1, b |-> 1]}

Limits == (1..MaxLimit) \cup {DefaultLimit}

\* the maps built from the per-validator data, keyed by the validator's number
TotalsOf(es) == [i \in 1..Len(es) |-> <<i, es[i].total>>]
RECURSIVE PresentOf(_, _, _)
PresentOf(es, i, field) ==
    IF i > Len(es) THEN EmptyMap
    ELSE LET rest == PresentOf(es, i + 1, field)
         IN IF es[i][field] = 0 THEN rest ELSE <<<<i, es[i][field]>>>> \o rest

InitRank ==
    /\ rankIn \in [es : SeqsUpTo(EntityData, MaxEntities), limit : Limits]
    /\ ranked = NotRanked
    /\ content = ContentAbsent
    /\ parsed = NotParsed
    /\ ToolIdle
    /\ FindIdle
    /\ HttpIdle

RankStake ==
    /\ ranked' = [tool |-> "get_top_validators_by_stake",
                  top |-> RankByValue(TotalsOf(rankIn.es), rankIn.limit)]
    /\ UNCHANGED <<rankIn, parseVars, toolVars, findVars, httpVars>>

RankEarnings ==
    /\ ranked' = [tool |-> "get_top_validators_by_earnings",
                  top |-> RankByValue(TotalsOf(rankIn.es), rankIn.limit)]
    /\ UNCHANGED <<rankIn, parseVars, toolVars, findVars, httpVars>>

RankProposer ==
    /\ ranked' = [tool |-> "get_top_proposer_success_rate",
                  top |-> RankProposers(TotalsOf(rankIn.es), PresentOf(rankIn.es, 1, "a"),
                                        PresentOf(rankIn.es, 1, "b"), rankIn.limit)]
    /\ UNCHANGED <<rankIn, parseVars, toolVars, findVars, httpVars>>

RankCosigner ==
    /\ ranked' = [tool |-> "get_top_cosigner_success_rate",
                  top |-> RankCosigners(TotalsOf(rankIn.es), PresentOf(rankIn.es, 1, "a"),
                                        rankIn.limit)]
    /\ UNCHANGED <<rankIn, parseVars, toolVars, findVars, httpVars>>

NextRank ==
    \/ RankStake
    \/ RankEarnings
    \/ RankProposer
    \/ RankCosigner

SpecRank == InitRank /\ [][NextRank]_vars

(***************************************************************************)
(* One tool invocation: bounds and inputs                                  *)
(***************************************************************************)
\* how far the clock may move during one invocation
MaxTicks == 1
\* the largest limit a caller of a ranking tool asks for
MaxToolLimit == 2

\* durations, in minutes
HourMinutes == 60
DayMinutes == 1440
StakeMinutes == 5
RosterMinutes == 10080

ListTool == "list_validators"
ResolvingTools ==
    {"get_validator_info", "get_total_validator_earnings", "get_validator_earnings_breakdown",
     "get_validator_stake", "get_proposer_success_rate", "get_cosigner_success_rate"}
RankingTools ==
    {"get_top_validators_by_earnings", "get_top_validators_by_stake",
     "get_top_proposer_success_rate", "get_top_cosigner_success_rate"}
Tools == {ListTool} \cup ResolvingTools \cup RankingTools
\* the tools whose schema has startTime and endTime
TimeTools == (ResolvingTools \ {"get_validator_info", "get_validator_stake"}) \cup RankingTools
\* the tools whose action awaits a Promise.all
ParallelTools ==
    {"get_validator_earnings_breakdown", "get_proposer_success_rate", "get_cosigner_success_rate"}

\* the arguments a caller passes
Identifiers == {"TW", "pk2", "nobody"}
StartArgs == {TimeAbsent, TimeInvalid, TimeOf(Now0 - 200)}
EndArgs == {TimeAbsent, TimeInvalid, TimeOf(Now0 - 100)}
LimitArgs == {LimitAbsent} \cup (1..MaxToolLimit)
ArgsOf(t) ==
    [validator : IF t \in ResolvingTools THEN Identifiers ELSE {""},
     startTime : IF t \in TimeTools THEN StartArgs ELSE {TimeAbsent},
     endTime : IF t \in TimeTools THEN EndArgs ELSE {TimeAbsent},
     limit : IF t \in RankingTools THEN LimitArgs ELSE {LimitAbsent}]

\* what the validators metric reports
V1 == ("name" :> "Tw") @@ ("public_key" :> "pk1") @@ ("address" :> "a1")
          @@ ("zil_address" :> "z1")
V2 == ("name" :> "Moon") @@ ("public_key" :> "pk2") @@ ("address" :> "a2")
          @@ ("zil_address" :> "z2")
\* V2 reported without its zil_address label
V2Short == ("name" :> "Moon") @@ ("public_key" :> "pk2") @@ ("address" :> "a2")
SeriesOf(metric, n) == [metric |-> metric, points |-> PointsOf(<<Double(n)>>)]
RosterReplies ==
    {ContentEmpty,
     ContentText(JsonBad),
     ContentText(JsonNotArray),
     ContentText(JsonArray(<<SeriesOf(MetricOf(V1), 1), SeriesOf(MetricOf(V2), 1)>>)),
     ContentText(JsonArray(<<SeriesOf(MetricOf(V1), 1), SeriesOf(MetricOf(V2Short), 1)>>)),
     ContentText(JsonArray(<<SeriesOf(MetricOf(V1), 1), SeriesOf(MetricNoLabels, 1)>>)),
     ContentText(JsonArray(<<SeriesOf(MetricOf(V1), 1), SeriesOf(MetricAbsent, 1)>>))}

\* what the other metrics report
SeriesFor(pk, addr, n) ==
    SeriesOf(MetricOf(("validator" :> pk) @@ ("address" :> addr)), n)
ValueReplies ==
    {ContentEmpty, ContentText(JsonArray(<<SeriesFor("pk1", "a1", 100)>>))}
\* two series for one validator, reporting different values
DuplicateReply ==
    ContentText(JsonArray(<<SeriesFor("pk1", "a1", 250), SeriesFor("pk1", "a1", 100)>>))
GroupReplies ==
    {ContentText(JsonBad),
     ContentText(JsonArray(<<SeriesFor("pk1", "a1", 100)>>)),
     ContentText(JsonArray(<<SeriesFor("pk1", "a1", 250), SeriesFor("pk2", "a2", 100)>>)),
     ContentText(JsonArray(<<SeriesFor("pk1", "a1", 100), SeriesFor("pk2", "a2", 0)>>))}

\* what connect, callTool and close raise
Err(message) == [isError |-> TRUE, message |-> message]
ConnectErrors == {Err("connect ECONNREFUSED")}
CallErrors == {Err("Request timed out")}
CloseErrors == {Err("close failed")}

(***************************************************************************)
(* Dates                                                                   *)
(***************************************************************************)
\* `startTime ? ... : ...`
Supplied(a) == a.k # "absent"

\* a Date: an instant, or the Invalid Date
InvalidDate == [valid |-> FALSE, t |-> 0]
DateAt(t) == [valid |-> TRUE, t |-> t]
\* new Date(string)
NewDate(a) == IF a.k = "date" THEN DateAt(a.t) ELSE InvalidDate
\* new Date(d.getTime() - m minutes)
Before(d, m) == IF d.valid THEN DateAt(d.t - m) ELSE InvalidDate
\* d.toISOString(): the string naming the instant, RangeError on the Invalid Date
toISOString(d) == IF d.valid THEN Ret(d.t) ELSE Throw("RangeError")

\* what `new Date()` may read next
ClockReads == {t \in now..(now + 1) : t <= Now0 + MaxTicks}

\* a variant that counts the default start back from the clock
DefaultStart_FromClock(end, clock) == DateAt(clock - HourMinutes)
\* new Date(end.getTime() - 60 * 60 * 1000)
DefaultStart(end, clock) == Before(end, HourMinutes)

\* the first five lines of every tool function that takes startTime and endTime
TimeWindow(startTime, endTime, clock) ==
    LET end == IF Supplied(endTime) THEN NewDate(endTime) ELSE DateAt(clock)
        start == IF Supplied(startTime) THEN NewDate(startTime) ELSE DefaultStart(end, clock)
    IN IF ~Supplied(startTime) /\ ~Supplied(endTime)
       THEN Ret([start |-> start.t, end |-> end.t, at |-> clock, text |-> "in the last hour"])
       ELSE IF toISOString(start).threw \/ toISOString(end).threw
            THEN Throw("RangeError")
            ELSE Ret([start |-> toISOString(start).v, end |-> toISOString(end).v,
                      at |-> clock, text |-> "between"])

\* the window of getValidatorStake
StakeWindow(clock) ==
    [start |-> clock - StakeMinutes, end |-> clock, at |-> clock, text |-> "none"]

\* `${(end.getTime() - start.getTime()) / 1000}s`
PeriodSeconds(start, end) == (end - start) * 60
NoAggregation == [has |-> FALSE, period |-> 0, aligner |-> "none"]
Aggregation(period, aligner) == [has |-> TRUE, period |-> period, aligner |-> aligner]

(***************************************************************************)
(* The roster                                                              *)
(***************************************************************************)
\* a variant that leaves the string as it is
toLowerCase_Identity(s) == s
\* String.prototype.toLowerCase, on the strings of this model
toLowerCase(s) ==
    CASE s \in {"TW", "Tw", "tW"} -> "tw"
      [] s \in {"Moon", "MOON"} -> "moon"
      [] s \in {"Torch", "TORCH"} -> "torch"
      [] s \in {"PK1", "Pk1"} -> "pk1"
      [] s = "PK2" -> "pk2"
      [] s = "PK3" -> "pk3"
      [] s = "A1" -> "a1"
      [] s = "A2" -> "a2"
      [] s = "A3" -> "a3"
      [] s = "Z1" -> "z1"
      [] s = "Z2" -> "z2"
      [] s = "Z3" -> "z3"
      [] OTHER -> s

ValidatorFields == <<"name", "public_key", "address", "zil_address">>

\* v.name.toLowerCase() === id || v.public_key.toLowerCase() === id || ...
RECURSIVE MatchesFrom(_, _, _)
MatchesFrom(v, id, i) ==
    IF i > Len(ValidatorFields) THEN Ret(FALSE)
    ELSE IF ~v.defined \/ ValidatorFields[i] \notin DOMAIN v.f THEN Throw("TypeError")
    ELSE IF toLowerCase(v.f[ValidatorFields[i]]) = id THEN Ret(TRUE)
    ELSE MatchesFrom(v, id, i + 1)

\* validators.find(...)
RECURSIVE FindFrom(_, _, _)
FindFrom(validators, id, i) ==
    IF i > Len(validators) THEN Ret(Undefined)
    ELSE LET m == MatchesFrom(validators[i], id, 1)
         IN IF m.threw THEN m
            ELSE IF m.v THEN Ret(validators[i])
            ELSE FindFrom(validators, id, i + 1)

\* a variant that looks for a match by name in every record first
findValidator_NameFirst(identifier, validators) ==
    LET id == toLowerCase(identifier)
        named == {i \in 1..Len(validators) :
                     /\ validators[i].defined
                     /\ "name" \in DOMAIN validators[i].f
                     /\ toLowerCase(validators[i].f["name"]) = id}
    IN IF named # {}
       THEN Ret(validators[CHOOSE i \in named : \A j \in named : i <= j])
       ELSE FindFrom(validators, id, 1)
\* findValidator: the first record of the roster that matches
findValidator(identifier, validators) == FindFrom(validators, toLowerCase(identifier), 1)

\* v.public_key and the like, "undefined" once it is put into a string
FieldOf(v, k) == IF k \in DOMAIN v.f THEN v.f[k] ELSE "undefined"

\* what the action of getValidators returns for a reply, as withMcpClient wraps it
RosterOf(c) ==
    IF HasTextPart(c)
    THEN LET p == JSONparse(c.text)
         IN IF p.threw \/ p.v.j # "array" THEN PendingEmpty
            ELSE IF \E i \in 1..Len(p.v.arr) : ~p.v.arr[i].metric.has THEN PendingEmpty
            ELSE PendingJson([i \in 1..Len(p.v.arr) |->
                                IF p.v.arr[i].metric.hasLabels
                                THEN Defined(p.v.arr[i].metric.labels)
                                ELSE Undefined])
    ELSE PendingEmpty

\* the tail of getValidators
UnpackRoster(p) == IF p.kind = "json" THEN p.data ELSE << >>

\* a variant of the catch block that never finds a message on the error
ErrorEnvelope_Unknown(e) ==
    Failed([kind |-> "Error calling downstream MCP: ", arg |-> "Unknown error"])
\* the catch block of withMcpClient
ErrorEnvelope(e) ==
    Failed([kind |-> "Error calling downstream MCP: ",
            arg |-> IF e.isError THEN e.message ELSE "Unknown error"])
CouldNotFetch ==
    Failed([kind |-> "Could not fetch validator list from the monitoring service.", arg |-> ""])
NotFound(identifier) == Failed([kind |-> "Validator not found.", arg |-> identifier])

(***************************************************************************)
(* The queries of the tool functions                                       *)
(***************************************************************************)
\* typeof params.limit === 'number' ? params.limit : 5
LimitOf(a) == IF a.limit = LimitAbsent THEN DefaultLimit ELSE a.limit
\* !startTime && !endTime
NoTimeframe(a) == ~Supplied(a.startTime) /\ ~Supplied(a.endTime)

At(name) == [name |-> name, i |-> 0]
Finish == At("finish")

NoFilter == [label |-> "none", value |-> "", extra |-> ""]
FilterOn(label, value, extra) == [label |-> label, value |-> value, extra |-> extra]
Delta(w) == Aggregation(PeriodSeconds(w.start, w.end), "ALIGN_DELTA")
Descriptor(metric, filter, from, to, agg, parser, key) ==
    [metric |-> metric, filter |-> filter, from |-> from, to |-> to, agg |-> agg,
     parser |-> parser, key |-> key]

\* the toolArguments of the query a tool function sends at step s (for the
\* tools that await a Promise.all: of the query that fills slot s.name)
QueryAt(t, s, w, v, validatorMeta) ==
    CASE t = "get_total_validator_earnings" ->
           Descriptor("earnings", FilterOn("address", FieldOf(v, "address"), ""),
                      w.start, w.end, Delta(w), "value", "")
      [] t = "get_validator_earnings_breakdown" ->
           Descriptor("earnings", FilterOn("address", FieldOf(v, "address"), s.name),
                      w.start, w.end, Delta(w), "value", "")
      [] t = "get_validator_stake" ->
           Descriptor("stake", FilterOn("validator", FieldOf(v, "public_key"), ""),
                      w.start, w.end, NoAggregation, "latest", "")
      [] t = "get_proposer_success_rate" ->
           Descriptor("proposals", FilterOn("validator", FieldOf(v, "public_key"), s.name),
                      w.start, w.end, Delta(w), "value", "")
      [] t = "get_cosigner_success_rate" ->
           Descriptor("cosignatures", FilterOn("validator", FieldOf(v, "public_key"), s.name),
                      w.start, w.end, Delta(w), "value", "")
      [] t = "get_top_validators_by_earnings" ->
           Descriptor("earnings", NoFilter, w.start, w.end, Delta(w), "groupSum", "address")
      [] t = "get_top_validators_by_stake" /\ s.name = "base" ->
           Descriptor("stake", FilterOn("validator", "!=", ""), w.start, w.end,
                      NoAggregation, "groupLatest", "validator")
      [] t = "get_top_validators_by_stake" /\ s.name = "widened" ->
           Descriptor("stake", FilterOn("validator", "!=", ""), w.end - DayMinutes, w.end,
                      NoAggregation, "groupLatest", "validator")
      [] t = "get_top_validators_by_stake" /\ s.name = "deep" ->
           Descriptor("stake",
                      FilterOn("validator", FieldOf(validatorMeta[s.i], "public_key"), ""),
                      w.end - DayMinutes, w.end, NoAggregation, "latest", "")
      [] t = "get_top_proposer_success_rate" /\ s.name \in {"totals", "proposed", "missed"} ->
           Descriptor("proposals", FilterOn("validator", "!=", s.name), w.start, w.end,
                      Delta(w), "groupSum", "validator")
      [] t = "get_top_proposer_success_rate"
           /\ s.name \in {"totals24", "proposed24", "missed24"} ->
           Descriptor("proposals", FilterOn("validator", "!=", s.name), w.end - DayMinutes,
                      w.end, Delta(w), "groupSum", "validator")
      [] t = "get_top_cosigner_success_rate" /\ s.name \in {"totals", "successful"} ->
           Descriptor("cosignatures", FilterOn("validator", "!=", s.name), w.start, w.end,
                      Delta(w), "groupSum", "validator")
      [] t = "get_top_cosigner_success_rate" /\ s.name \in {"totals24", "successful24"} ->
           Descriptor("cosignatures", FilterOn("validator", "!=", s.name),
                      w.end - DayMinutes, w.end, Delta(w), "groupSum", "validator")

\* the parser a tool function applies to the reply
ParseWith(parser, key, c) ==
    CASE parser = "value" -> parseTimeSeriesValue(c)
      [] parser = "latest" -> parseTimeSeriesLatestValue(c)
      [] parser = "groupSum" -> parseTimeSeriesGroupSum(c, key)
      [] parser = "groupLatest" -> parseTimeSeriesGroupLatest(c, key)
RepliesTo(parser) ==
    CASE parser = "latest" /\ tool = "get_validator_stake" -> ValueReplies \cup {DuplicateReply}
      [] parser = "value" /\ tool \in {"get_proposer_success_rate", "get_cosigner_success_rate"} ->
           ValueReplies \cup {ContentText(JsonBad)}
      [] parser \in {"value", "latest"} -> ValueReplies
      [] OTHER -> GroupReplies

\* the slots of a Promise.all, in the order its calls are made
SlotsOf(t) ==
    CASE t = "get_validator_earnings_breakdown" -> <<"proposer", "cosigner">>
      [] t = "get_proposer_success_rate" -> <<"total", "proposed", "missed">>
      [] t = "get_cosigner_success_rate" -> <<"total", "successful">>

\* where the action of a tool function starts, and what it holds then
FirstStep(t) ==
    CASE t \in ParallelTools -> At("all")
      [] t = "get_total_validator_earnings" -> At("total")
      [] t = "get_validator_stake" -> At("stake")
      [] t = "get_top_validators_by_stake" -> At("base")
      [] OTHER -> At("totals")
FirstAcc(t) ==
    IF t = "get_top_validators_by_stake"
    THEN [latest |-> EmptyMap, stakeEntries |-> << >>]
    ELSE NoAcc

\* a variant with the operands the other way round: {...over, ...under}
RECURSIVE Spread_Swapped(_, _)
Spread_Swapped(under, over) ==
    IF under = << >> THEN over
    ELSE Spread_Swapped(Tail(under), MapSet(over, under[1][1], under[1][2]))
\* {...widened, ...latestByValidator}
RECURSIVE Spread(_, _)
Spread(under, over) ==
    IF over = << >> THEN under
    ELSE Spread(MapSet(under, over[1][1], over[1][2]), Tail(over))

\* the local variables of the action after the reply to step s parsed to value
UpdateAcc(t, s, validatorMeta, a, value) ==
    CASE t = "get_top_validators_by_stake" /\ s.name = "base" ->
           [a EXCEPT !.latest = value]
      [] t = "get_top_validators_by_stake" /\ s.name = "widened" ->
           [a EXCEPT !.latest = Spread(value, a.latest)]
      [] t = "get_top_validators_by_stake" /\ s.name = "deep" ->
           IF value > 0
           THEN [a EXCEPT !.stakeEntries =
                    Append(@, <<FieldOf(validatorMeta[s.i], "public_key"), value>>)]
           ELSE a
      [] s.name = "totals24" -> ("totals" :> value) @@ a
      [] s.name = "proposed24" -> ("proposed" :> value) @@ a
      [] s.name = "missed24" -> ("missed" :> value) @@ a
      [] s.name = "successful24" -> ("successful" :> value) @@ a
      [] OTHER -> (s.name :> value) @@ a

\* a variant of the loop without the `continue` for the keys present
NextDeep_All(validatorMeta, latest, i) ==
    IF i > Len(validatorMeta) THEN [name |-> "finish", i |-> 0] ELSE [name |-> "deep", i |-> i]
\* a variant that gives up once it has looked at as many roster records as
\* validators were needed
RECURSIVE NextDeep_NeededOnly(_, _, _)
NextDeep_NeededOnly(validatorMeta, latest, i) ==
    IF i > Len(validatorMeta) \/ i > LimitOf(args) - Len(latest) THEN Finish
    ELSE IF MapHas(latest, FieldOf(validatorMeta[i], "public_key"))
         THEN NextDeep_NeededOnly(validatorMeta, latest, i + 1)
         ELSE [name |-> "deep", i |-> i]
\* the next public key of the deep fallback that latestByValidator lacks
RECURSIVE NextDeep(_, _, _)
NextDeep(validatorMeta, latest, i) ==
    IF i > Len(validatorMeta) THEN Finish
    ELSE IF MapHas(latest, FieldOf(validatorMeta[i], "public_key"))
         THEN NextDeep(validatorMeta, latest, i + 1)
         ELSE [name |-> "deep", i |-> i]

\* (!startTime && !endTime), the first half of the widening test
MayWiden(a) == NoTimeframe(a)

\* the step after step s, given the local variables after it
NextStep(t, s, a, validatorMeta, acc1) ==
    CASE t = "get_top_validators_by_stake" /\ s.name = "base" ->
           IF MayWiden(a) /\ Len(acc1.latest) < LimitOf(a) THEN At("widened")
           ELSE IF Len(acc1.latest) < LimitOf(a) THEN NextDeep(validatorMeta, acc1.latest, 1)
           ELSE Finish
      [] t = "get_top_validators_by_stake" /\ s.name = "widened" ->
           IF Len(acc1.latest) < LimitOf(a) THEN NextDeep(validatorMeta, acc1.latest, 1)
           ELSE Finish
      [] t = "get_top_validators_by_stake" /\ s.name = "deep" ->
           NextDeep(validatorMeta, acc1.latest, s.i + 1)
      [] t = "get_top_proposer_success_rate" /\ s.name = "totals" -> At("proposed")
      [] t = "get_top_proposer_success_rate" /\ s.name = "proposed" -> At("missed")
      [] t = "get_top_proposer_success_rate" /\ s.name = "missed" ->
           IF MayWiden(a) /\ Len(acc1.totals) < LimitOf(a) THEN At("totals24") ELSE Finish
      [] t = "get_top_proposer_success_rate" /\ s.name = "totals24" -> At("proposed24")
      [] t = "get_top_proposer_success_rate" /\ s.name = "proposed24" -> At("missed24")
      [] t = "get_top_cosigner_success_rate" /\ s.name = "totals" -> At("successful")
      [] t = "get_top_cosigner_success_rate" /\ s.name = "successful" ->
           IF MayWiden(a) /\ Len(acc1.totals) < LimitOf(a) THEN At("totals24") ELSE Finish
      [] t = "get_top_cosigner_success_rate" /\ s.name = "totals24" -> At("successful24")
      [] OTHER -> Finish

\* a variant that leaves timeFrameText as it was computed at entry
TextAfter_Keep(t, s, w) == w
\* timeFrameText after step s
TextAfter(t, s, w) ==
    IF \/ t = "get_top_validators_by_stake" /\ s.name = "widened"
       \/ s.name \in {"missed24", "successful24"}
    THEN [w EXCEPT !.text = "in the last 24 hours"]
    ELSE w

(***************************************************************************)
(* The success envelopes                                                   *)
(***************************************************************************)
\* byPubKey[key] / byAddress[key]: the last roster record filed under key
Meta(validatorMeta, keyField, key) ==
    LET hits == {i \in 1..Len(validatorMeta) : FieldOf(validatorMeta[i], keyField) = key}
    IN IF hits = {} THEN Undefined ELSE validatorMeta[CHOOSE i \in hits : \A j \in hits : j <= i]

\* x || undefined
OrUndefined(x) == IF x = "" THEN "undefined" ELSE x
\* byPubKey[key]?.name
MetaField(m, k) == IF m.defined THEN FieldOf(m, k) ELSE "undefined"

\* the map(...) that adds name, zil_address and address / public_key to the
\* entries of a ranking; falsy is TRUE where the code writes `|| undefined`
Enrich(entries, validatorMeta, keyField, otherField, falsy) ==
    [i \in 1..Len(entries) |->
        LET m == Meta(validatorMeta, keyField, entries[i].key)
            get(k) == IF falsy THEN OrUndefined(MetaField(m, k)) ELSE MetaField(m, k)
        IN [key |-> entries[i].key, val |-> entries[i].val, name |-> get("name"),
            zil_address |-> get("zil_address"), other |-> get(otherField)]]

\* for (const e of stakeEntries) latestByValidator[e.public_key] = e.amount
MergeFallbacks(a) == Spread(a.latest, a.stakeEntries)

\* top_validators
TopOf(t, a, validatorMeta, acc1) ==
    CASE t = "get_top_validators_by_earnings" ->
           Enrich(RankByValue(acc1.totals, LimitOf(a)), validatorMeta, "address",
                  "public_key", TRUE)
      [] t = "get_top_validators_by_stake" ->
           Enrich(RankByValue(MergeFallbacks(acc1), LimitOf(a)), validatorMeta, "public_key",
                  "address", TRUE)
      [] t = "get_top_proposer_success_rate" ->
           Enrich(RankProposers(acc1.totals, acc1.proposed, acc1.missed, LimitOf(a)),
                  validatorMeta, "public_key", "address", FALSE)
      [] t = "get_top_cosigner_success_rate" ->
           Enrich(RankCosigners(acc1.totals, acc1.successful, LimitOf(a)),
                  validatorMeta, "public_key", "address", FALSE)
      [] OTHER -> << >>

\* a variant that tests the success count instead of the total
ValueOf_BySuccess(t, acc1) ==
    CASE t = "get_total_validator_earnings" -> acc1.total
      [] t = "get_validator_stake" -> acc1.stake
      [] t = "get_validator_earnings_breakdown" -> <<acc1.proposer, acc1.cosigner>>
      [] t = "get_proposer_success_rate" ->
           IF acc1.total > 0 /\ acc1.proposed + acc1.missed > 0
           THEN RateToFixed2(acc1.proposed + acc1.missed, acc1.total)
           ELSE NotApplicable
      [] t = "get_cosigner_success_rate" ->
           IF acc1.total > 0 /\ acc1.successful > 0
           THEN RateToFixed2(acc1.successful, acc1.total)
           ELSE NotApplicable
      [] OTHER -> 0
\* the figure(s) of a single-validator tool
ValueOf(t, acc1) ==
    CASE t = "get_total_validator_earnings" -> acc1.total
      [] t = "get_validator_stake" -> acc1.stake
      [] t = "get_validator_earnings_breakdown" -> <<acc1.proposer, acc1.cosigner>>
      [] t = "get_proposer_success_rate" ->
           IF acc1.total > 0 THEN RateToFixed2(acc1.proposed + acc1.missed, acc1.total)
           ELSE NotApplicable
      [] t = "get_cosigner_success_rate" ->
           IF acc1.total > 0 THEN RateToFixed2(acc1.successful, acc1.total)
           ELSE NotApplicable
      [] OTHER -> 0

\* {status: "success", data: {...}} of a tool function
FinalEnvelope(t, a, validatorMeta, acc1, w) ==
    Success([kind |-> t, value |-> ValueOf(t, acc1), top |-> TopOf(t, a, validatorMeta, acc1),
             text |-> w.text, from |-> w.start, to |-> w.end, requested |-> LimitOf(a)])

(***************************************************************************)
(* One tool invocation: the steps                                          *)
(***************************************************************************)
Cur == Len(clients)
\* new Client(...)
NewClient(ph) == Append(clients, [phase |-> ph, st |-> "connecting"])
SetClient(st) == [clients EXCEPT ![Cur].st = st]
Failure(at, e, swallowed) ==
    [phase |-> phase, at |-> at, message |-> e.message, swallowed |-> swallowed]

\* a variant of withMcpClient that closes the client on the success path only
AfterCatch_NoFinally == "return"
\* where control goes after the catch block of withMcpClient: to `finally`
AfterCatch == "close"

\* the clock values the entry of a tool function may read
ClockFor(t, a) == IF t \in TimeTools /\ Supplied(a.endTime) THEN {now} ELSE ClockReads

\* the window a tool function computes before it calls withMcpClient
EnterTool(t, a, clock) ==
    IF t = "get_validator_stake" THEN Ret(StakeWindow(clock))
    ELSE TimeWindow(a.startTime, a.endTime, clock)

\* the handler promise settles
SettleWith(r) ==
    /\ result' = r
    /\ pc' = "done"
    /\ UNCHANGED <<now, win, clients, phase>>

\* a tool function enters withMcpClient
StartMain(clock, w) ==
    /\ now' = clock
    /\ win' = w
    /\ clients' = NewClient("main")
    /\ phase' = "main"
    /\ pc' = "connect"
    /\ UNCHANGED result

\* the handler registered for tool t is called with arguments a
Invoke(t, a) ==
    /\ pc = "idle"
    /\ tool' = t
    /\ args' = a
    /\ IF t \in RankingTools
       THEN \E clock \in ClockFor(t, a) :
              LET w == EnterTool(t, a, clock)
              IN IF w.threw
                 THEN /\ now' = clock
                      /\ result' = Rejected(w.v)
                      /\ pc' = "done"
                      /\ UNCHANGED <<win, clients, phase>>
                 ELSE /\ now' = clock
                      /\ win' = w.v
                      /\ clients' = NewClient("roster")
                      /\ phase' = "roster"
                      /\ pc' = "connect"
                      /\ UNCHANGED result
       ELSE /\ clients' = NewClient("roster")
            /\ phase' = "roster"
            /\ pc' = "connect"
            /\ UNCHANGED <<now, win, result>>
    /\ UNCHANGED <<step, queries, inflight, pending, roster, vinfo, acc, failures,
                   parseVars, rankVars, findVars, httpVars>>

\* await mcpClient.connect(transport)
Connect ==
    /\ pc = "connect"
    /\ \/ /\ clients' = SetClient("connected")
          /\ pc' = "action"
          /\ step' = IF phase = "roster" THEN At("validators") ELSE FirstStep(tool)
          /\ acc' = IF phase = "roster" THEN acc ELSE FirstAcc(tool)
          /\ UNCHANGED <<pending, failures>>
       \/ \E e \in ConnectErrors :
          /\ clients' = SetClient("connectFailed")
          /\ pending' = PendingText(ErrorEnvelope(e))
          /\ failures' = Append(failures, Failure("connect", e, FALSE))
          /\ pc' = AfterCatch
          /\ UNCHANGED <<step, acc>>
    /\ UNCHANGED <<tool, args, phase, now, win, queries, inflight, roster, vinfo, result,
                   parseVars, rankVars, findVars, httpVars>>

\* a list_time_series call as the log keeps it
Sent(slot, d, st, v) ==
    [client |-> Cur, phase |-> phase, slot |-> slot, metric |-> d.metric, filter |-> d.filter,
     from |-> d.from, to |-> d.to, agg |-> d.agg, st |-> st, v |-> v, reply |-> ContentAbsent]

\* the same with the reply the call got
Replied(q, c) == [q EXCEPT !.reply = c]

\* the action of getValidators: the roster query and what it makes of the reply
FetchRoster ==
    /\ pc = "action"
    /\ phase = "roster"
    /\ \E clock \in ClockReads :
         LET d == Descriptor("validators", NoFilter, clock - RosterMinutes, clock,
                             Aggregation(PeriodSeconds(clock - RosterMinutes, clock),
                                         "ALIGN_MEAN"),
                             "roster", "")
         IN /\ now' = clock
            /\ \/ \E c \in RosterReplies :
                    /\ queries' = Append(queries, Sent("validators", d, "ok", 0))
                    /\ pending' = RosterOf(c)
                    /\ pc' = "close"
                    /\ UNCHANGED failures
               \/ \E e \in CallErrors :
                    /\ queries' = Append(queries, Sent("validators", d, "raised", 0))
                    /\ pending' = PendingText(ErrorEnvelope(e))
                    /\ failures' = Append(failures, Failure("call", e, FALSE))
                    /\ pc' = AfterCatch
    /\ UNCHANGED <<tool, args, phase, step, win, clients, inflight, roster, vinfo, acc, result,
                   parseVars, rankVars, findVars, httpVars>>

\* finally { await mcpClient.close() }
Close ==
    /\ pc = "close"
    /\ \/ /\ clients' = SetClient("closed")
          /\ pc' = "return"
          /\ UNCHANGED <<failures, result>>
       \/ \E e \in CloseErrors :
          /\ clients' = SetClient("closeFailed")
          /\ failures' = Append(failures, Failure("close", e, FALSE))
          /\ result' = Rejected(e.message)
          /\ pc' = "done"
    /\ UNCHANGED <<tool, args, phase, step, now, win, queries, inflight, pending, roster, vinfo,
                   acc, parseVars, rankVars, findVars, httpVars>>

\* getValidators returns to the handler of list_validators
ReturnToList ==
    /\ pc = "return"
    /\ phase = "roster"
    /\ tool = ListTool
    /\ roster' = UnpackRoster(pending)
    /\ SettleWith(Resolved(IF Len(roster') = 0 THEN CouldNotFetch
                           ELSE Success([kind |-> ListTool, value |-> roster'])))
    /\ UNCHANGED <<tool, args, step, queries, inflight, pending, vinfo, acc, failures,
                   parseVars, rankVars, findVars, httpVars>>

\* getValidators returns to withValidatorResolution, which resolves the
\* validator and calls the tool's handler up to its first await
ReturnToResolution ==
    /\ pc = "return"
    /\ phase = "roster"
    /\ tool \in ResolvingTools
    /\ roster' = UnpackRoster(pending)
    /\ LET found == findValidator(args.validator, roster')
       IN IF Len(roster') = 0
          THEN SettleWith(Resolved(CouldNotFetch)) /\ UNCHANGED vinfo
          ELSE IF found.threw
          THEN SettleWith(Rejected(found.v)) /\ UNCHANGED vinfo
          ELSE IF ~found.v.defined
          THEN SettleWith(Resolved(NotFound(args.validator))) /\ UNCHANGED vinfo
          ELSE /\ vinfo' = found.v
               /\ IF tool = "get_validator_info"
                  THEN SettleWith(Resolved(Success([kind |-> tool, value |-> found.v])))
                  ELSE \E clock \in ClockFor(tool, args) :
                         LET w == EnterTool(tool, args, clock)
                         IN IF w.threw
                            THEN /\ now' = clock
                                 /\ result' = Rejected(w.v)
                                 /\ pc' = "done"
                                 /\ UNCHANGED <<win, clients, phase>>
                            ELSE StartMain(clock, w.v)
    /\ UNCHANGED <<tool, args, step, queries, inflight, pending, acc, failures,
                   parseVars, rankVars, findVars, httpVars>>

\* getValidators returns to a ranking tool function, which files the roster
\* by key and enters withMcpClient
ReturnToRanking ==
    /\ pc = "return"
    /\ phase = "roster"
    /\ tool \in RankingTools
    /\ roster' = UnpackRoster(pending)
    /\ IF \E i \in 1..Len(roster') : ~roster'[i].defined
       THEN SettleWith(Rejected("TypeError"))
       ELSE StartMain(now, win)
    /\ UNCHANGED <<tool, args, step, queries, inflight, pending, vinfo, acc, failures,
                   parseVars, rankVars, findVars, httpVars>>

\* the action goes on after step s: to the next query, or to its return
GoOn(acc1, w1, next) ==
    /\ acc' = acc1
    /\ win' = w1
    /\ step' = next
    /\ IF next = Finish
       THEN /\ pending' = PendingText(FinalEnvelope(tool, args, roster, acc1, w1))
            /\ pc' = "close"
       ELSE UNCHANGED <<pending, pc>>

\* the action throws into the catch block of withMcpClient
Caught(e) ==
    /\ pending' = PendingText(ErrorEnvelope(e))
    /\ failures' = Append(failures, Failure("call", e, FALSE))
    /\ pc' = AfterCatch
    /\ UNCHANGED <<acc, win, step>>

\* a variant of the deep fallback without its try/catch
QueryThrows_Propagates(e) == Caught(e)
\* a query of the action throws: the deep fallback ignores it, elsewhere it
\* reaches the catch block of withMcpClient
QueryThrows(e) ==
    IF step.name = "deep"
    THEN /\ failures' = Append(failures, Failure("call", e, TRUE))
         /\ GoOn(acc, win, NextDeep(roster, acc.latest, step.i + 1))
    ELSE Caught(e)

\* one awaited list_time_series call of a tool function that sends its
\* queries one after the other, and the code up to the next await
SeqQuery ==
    /\ pc = "action"
    /\ phase = "main"
    /\ tool \notin ParallelTools
    /\ LET d == QueryAt(tool, step, win, vinfo, roster)
       IN \/ \E c \in RepliesTo(d.parser) :
               LET r == ParseWith(d.parser, d.key, c)
                   acc1 == UpdateAcc(tool, step, roster, acc, r.v)
               IN IF r.threw
                  THEN /\ queries' = Append(queries, Replied(Sent(step.name, d, "ok", 0), c))
                       /\ QueryThrows(Err(r.v))
                  ELSE /\ queries' = Append(queries, Replied(Sent(step.name, d, "ok", r.v), c))
                       /\ GoOn(acc1, TextAfter(tool, step, win),
                               NextStep(tool, step, args, roster, acc1))
                       /\ UNCHANGED failures
          \/ \E e \in CallErrors :
               /\ queries' = Append(queries, Sent(step.name, d, "raised", 0))
               /\ QueryThrows(e)
    /\ UNCHANGED <<tool, args, phase, now, clients, inflight, roster, vinfo, result,
                   parseVars, rankVars, findVars, httpVars>>

\* Promise.all([...]): every call of the list is made before the first await
RECURSIVE SentAll(_, _)
SentAll(slots, log) ==
    IF slots = << >> THEN log
    ELSE SentAll(Tail(slots),
                 Append(log, Sent(slots[1], QueryAt(tool, At(slots[1]), win, vinfo, roster),
                                  "pending", 0)))

IssueAll ==
    /\ pc = "action"
    /\ phase = "main"
    /\ tool \in ParallelTools
    /\ step = At("all")
    /\ queries' = SentAll(SlotsOf(tool), queries)
    /\ inflight' = {SlotsOf(tool)[i] : i \in 1..Len(SlotsOf(tool))}
    /\ step' = At("await")
    /\ UNCHANGED <<tool, args, pc, phase, now, win, clients, pending, roster, vinfo, acc,
                   failures, result, parseVars, rankVars, findVars, httpVars>>

\* the log once the call for slot has settled
Settled(slot, st, v) ==
    [i \in 1..Len(queries) |->
        IF queries[i].phase = "main" /\ queries[i].slot = slot
        THEN [queries[i] EXCEPT !.st = st, !.v = v]
        ELSE queries[i]]

\* the log once the call for slot was answered with c, which parsed to v
SettledWith(slot, v, c) ==
    [i \in 1..Len(queries) |->
        IF queries[i].phase = "main" /\ queries[i].slot = slot
        THEN [queries[i] EXCEPT !.st = "ok", !.v = v, !.reply = c]
        ELSE queries[i]]

\* a variant of the join that isolates a failure: the figure of the failed
\* call counts as 0 and the others are awaited
Rejection_Isolated(slot, e) ==
    /\ queries' = Settled(slot, "raised", 0)
    /\ failures' = Append(failures, Failure("call", e, TRUE))
    /\ GoOn((slot :> 0) @@ acc, win, IF inflight' = {} THEN Finish ELSE step)
\* the call for slot rejects: Promise.all rejects with its error, which the
\* catch block of withMcpClient receives
Rejection(slot, e) ==
    /\ queries' = Settled(slot, "raised", 0)
    /\ Caught(e)

\* one call of the Promise.all settles; the first rejection rejects the
\* Promise.all, the last fulfilment fulfils it
SettleOne(slot) ==
    /\ pc = "action"
    /\ phase = "main"
    /\ step = At("await")
    /\ slot \in inflight
    /\ inflight' = inflight \ {slot}
    /\ \/ \E c \in RepliesTo("value") :
               LET r == ParseWith("value", "", c)
                   acc1 == (slot :> r.v) @@ acc
               IN IF r.threw
                  THEN /\ queries' = SettledWith(slot, 0, c)
                       /\ Caught(Err(r.v))
                  ELSE /\ queries' = SettledWith(slot, r.v, c)
                       /\ GoOn(acc1, win, IF inflight' = {} THEN Finish ELSE step)
                       /\ UNCHANGED failures
       \/ \E e \in CallErrors : Rejection(slot, e)
    /\ UNCHANGED <<tool, args, phase, now, clients, roster, vinfo, result,
                   parseVars, rankVars, findVars, httpVars>>

\* withMcpClient returns to the tool function, whose promise the handler returns
ReturnResult ==
    /\ pc = "return"
    /\ phase = "main"
    /\ SettleWith(Resolved(pending.env))
    /\ UNCHANGED <<tool, args, step, queries, inflight, pending, roster, vinfo, acc, failures,
                   parseVars, rankVars, findVars, httpVars>>

Init ==
    /\ content = ContentAbsent
    /\ parsed = NotParsed
    /\ rankIn = NoRankIn
    /\ ranked = NotRanked
    /\ ToolIdle
    /\ FindIdle
    /\ HttpIdle

Next ==
    \/ \E t \in Tools : \E a \in ArgsOf(t) : Invoke(t, a)
    \/ Connect
    \/ FetchRoster
    \/ Close
    \/ ReturnToList
    \/ ReturnToResolution
    \/ ReturnToRanking
    \/ SeqQuery
    \/ IssueAll
    \/ \E slot \in inflight : SettleOne(slot)
    \/ ReturnResult

Spec == Init /\ [][Next]_vars

(***************************************************************************)
(* findValidator applied to a roster                                       *)
(***************************************************************************)
\* the longest roster handed to findValidator
MaxRoster == 3

\* the same validator as V1 under another name
V1Renamed == ("name" :> "Torch") @@ ("public_key" :> "pk1") @@ ("address" :> "a1")
                 @@ ("zil_address" :> "z1")
\* a validator whose name is the public key of V1
V3 == ("name" :> "Pk1") @@ ("public_key" :> "pk3") @@ ("address" :> "a3")
          @@ ("zil_address" :> "z3")
\* the records getValidators can hand over: label maps, some without a label,
\* and undefined
RosterRecords ==
    {Defined(V1), Defined(V2), Defined(V1Renamed), Defined(V3), Defined(V2Short), Undefined}

\* the spellings of one identifier that differ in case only
CaseClasses ==
    {{"tw", "Tw", "TW", "tW"}, {"moon", "Moon", "MOON"}, {"torch", "Torch", "TORCH"},
     {"pk1", "Pk1", "PK1"}, {"pk2", "PK2"}, {"pk3", "PK3"},
     {"a1", "A1"}, {"a2", "A2"}, {"a3", "A3"}, {"z1", "Z1"}, {"z2", "Z2"}, {"z3", "Z3"},
     {"nobody"}}
CaseVariations(s) == UNION {c \in CaseClasses : s \in c}
FindIdentifiers == UNION CaseClasses

InitFind ==
    /\ findIn \in [identifier : FindIdentifiers, validators : SeqsUpTo(RosterRecords, MaxRoster)]
    /\ findOut = NoFindOut
    /\ content = ContentAbsent
    /\ parsed = NotParsed
    /\ rankIn = NoRankIn
    /\ ranked = NotRanked
    /\ ToolIdle
    /\ HttpIdle

CallFindValidator ==
    /\ findOut' = [called |-> TRUE, res |-> findValidator(findIn.identifier, findIn.validators)]
    /\ UNCHANGED <<findIn, parseVars, rankVars, toolVars, httpVars>>

NextFind == CallFindValidator

SpecFind == InitFind /\ [][NextFind]_vars

(***************************************************************************)
(* HTTP mode: the /mcp and /health endpoints of the three versions of      *)
(* index.ts                                                                *)
(***************************************************************************)
\* the most transports created and the most requests in flight at a time
MaxTransports == 2
MaxRequests == 2

\* index.ts with a session map, the same with keep-alive notifications
\* (unnamed/part_000), and the stateless index.ts
Variants == {"session", "keepalive", "stateless"}
SessionVariants == {"session", "keepalive"}

\* randomUUID(): the id the generator gives to the i-th transport
SessionIds == <<"s1", "s2", "s3", "s4">>
SessionIdOf(i) == SessionIds[i]
\* a property that every object inherits from Object.prototype
PrototypeKeys == {"constructor"}
\* the values of the mcp-session-id header; "" stands for no header
SessionHeaders == {""} \cup PrototypeKeys \cup {SessionIdOf(i) : i \in 1..MaxTransports}

\* transports[sessionId] on the plain object `transports`
Lookup(map, sessionId) ==
    IF MapHas(map, sessionId) THEN [kind |-> "transport", t |-> MapGet(map, sessionId)]
    ELSE IF sessionId \in PrototypeKeys THEN [kind |-> "inherited", t |-> 0]
    ELSE [kind |-> "undefined", t |-> 0]

\* delete map[k]
Delete(map, k) == SelectSeq(map, LAMBDA e : e[1] # k)

\* new StreamableHTTPServerTransport(...)
NewTransport == [st |-> "new", sessionId |-> "", keepAlive |-> FALSE]
\* the transport once the SDK has generated its session id; the keep-alive
\* version starts its interval in onsessioninitialized
Initialized(t) == [st |-> "initialized", sessionId |-> SessionIdOf(t),
                   keepAlive |-> variant = "keepalive"]
\* the transport once closed; onclose clears the interval
Closed(tr) == [tr EXCEPT !.st = "closed", !.keepAlive = FALSE]

\* onsessioninitialized: transports[newSessionId] = transport
OnSessionInitialized(map, t, newSessionId) == MapSet(map, newSessionId, t)

\* a variant of onclose that leaves the map as it is
OnClose_Keep(map, tr) == map
\* transport.onclose: if (transport.sessionId) delete transports[transport.sessionId]
OnClose(map, tr) == IF tr.sessionId # "" THEN Delete(map, tr.sessionId) ELSE map

\* response bodies: none, a JSON-RPC error object, a line of text, what the
\* SDK transport writes, an event stream, the framework's error page
NoBody == [kind |-> "none", code |-> ""]
JsonRpcError(code) == [kind |-> "jsonrpc-error", code |-> code]
TextBody == [kind |-> "text", code |-> ""]
SdkBody == [kind |-> "sdk", code |-> ""]
EventStream == [kind |-> "event-stream", code |-> ""]
ErrorPage == [kind |-> "html", code |-> ""]
\* the reply of /health, with and without active_sessions
HealthWithSessions == [kind |-> "health-sessions", code |-> ""]
HealthPlain == [kind |-> "health", code |-> ""]

\* a request as its handler sees it: the header, whether the body is an
\* initialize request, where the handler stands ("connect", "handle",
\* "done"), what the lookup gave (via) and the transport chosen, the
\* response written, what raised, whether the response had started then,
\* whether the handler's promise rejected, and the active_sessions of a
\* reply of /health
Request(method, sid, init) ==
    [method |-> method, sid |-> sid, init |-> init, pc |-> "arrived", via |-> "none", t |-> 0,
     status |-> 0, body |-> NoBody, writes |-> 0, failed |-> "none", started |-> FALSE,
     rejected |-> FALSE, active |-> 0]
\* res.status(...).json(...) / .send(...), or the transport writing the response
Respond(r, status, body) ==
    [r EXCEPT !.status = status, !.body = body, !.writes = @ + 1, !.pc = "done"]
\* the requests whose handler has not finished; a request answered stays
\* in reqs until the next one arrives or is answered
InFlight == {r \in reqs : r.pc # "done"}
Arrives(r) == InFlight \cup {r}
Replace(r, r1) == (InFlight \ {r}) \cup {r1}

\* the catch block around transport.handleRequest (all of the handler in
\* the stateless version): the session version logs, the keep-alive version
\* sends a line of text, the stateless version a JSON-RPC error, the last two
\* unless res.headersSent
Catch(r) ==
    IF variant = "session" \/ r.started THEN [r EXCEPT !.pc = "done"]
    ELSE IF variant = "keepalive" THEN Respond(r, 500, TextBody)
    ELSE Respond(r, 500, JsonRpcError("-32603"))

\* what becomes of a request whose async handler rejected: no response, or
\* the error page of the framework
Unhandled(r) ==
    {[r EXCEPT !.rejected = TRUE, !.pc = "done"],
     Respond([r EXCEPT !.rejected = TRUE], 500, ErrorPage)}

InitHttp ==
    /\ variant \in Variants
    /\ transports = << >>
    /\ created = << >>
    /\ reqs = {}
    /\ stopped = FALSE
    /\ content = ContentAbsent
    /\ parsed = NotParsed
    /\ rankIn = NoRankIn
    /\ ranked = NotRanked
    /\ ToolIdle
    /\ FindIdle

\* app.post('/mcp', ...) up to its first await
Post(sid, init) ==
    /\ ~stopped
    /\ Cardinality(InFlight) < MaxRequests
    /\ LET r == Request("POST", sid, init)
           l == Lookup(transports, sid)
       IN IF variant = "stateless" \/ (sid = "" /\ init)
          THEN /\ Len(created) < MaxTransports
               /\ created' = Append(created, NewTransport)
               /\ reqs' = Arrives([r EXCEPT !.via = "new", !.t = Len(created) + 1,
                                             !.pc = "connect"])
          ELSE /\ reqs' = Arrives(
                     IF sid # "" /\ l.kind = "transport"
                     THEN [r EXCEPT !.via = "session", !.t = l.t, !.pc = "handle"]
                     ELSE IF sid # "" /\ l.kind = "inherited"
                     THEN Catch([r EXCEPT !.via = "inherited", !.failed = "handle"])
                     ELSE Respond(r, 400, JsonRpcError("-32000")))
               /\ UNCHANGED created
    /\ UNCHANGED <<variant, transports, stopped, parseVars, rankVars, toolVars, findVars>>

\* await server.connect(transport)
ConnectSettles(r) ==
    /\ ~stopped
    /\ r.pc = "connect"
    /\ \/ /\ created' = [created EXCEPT ![r.t].st = "connected"]
          /\ reqs' = Replace(r, [r EXCEPT !.pc = "handle"])
       \/ /\ variant = "stateless"
          /\ created' = [created EXCEPT ![r.t] = Closed(@)]
          /\ reqs' = Replace(r, Catch([r EXCEPT !.failed = "connect"]))
       \/ /\ variant \in SessionVariants
          /\ \E r1 \in Unhandled([r EXCEPT !.failed = "connect"]) : reqs' = Replace(r, r1)
          /\ UNCHANGED created
    /\ UNCHANGED <<variant, transports, stopped, parseVars, rankVars, toolVars, findVars>>

\* the transport initializes its session while it handles request r
InitializeSession(r) ==
    /\ created' = [created EXCEPT ![r.t] = Initialized(r.t)]
    /\ transports' = OnSessionInitialized(transports, r.t, SessionIdOf(r.t))

\* what the transport does to the server's state while it handles r: a
\* stateless transport is closed with the response, a new one initializes
\* its session, DELETE closes the session's transport
Handled(r) ==
    IF variant = "stateless"
    THEN /\ created' = [created EXCEPT ![r.t] = Closed(@)]
         /\ UNCHANGED transports
    ELSE IF r.via = "new" THEN InitializeSession(r)
    ELSE IF r.method = "DELETE"
    THEN /\ created' = [created EXCEPT ![r.t] = Closed(@)]
         /\ transports' = OnClose(transports, created[r.t])
    ELSE UNCHANGED <<created, transports>>

\* await transport.handleRequest(req, res, req.body) and the catch block
HandleSettles(r) ==
    /\ ~stopped
    /\ r.pc = "handle"
    /\ \/ /\ Handled(r)
          /\ reqs' = Replace(r, Respond(r, 200, SdkBody))
       \/ /\ variant \in SessionVariants
          /\ r.via = "new"
          /\ reqs' = Replace(r, Respond(r, 406, SdkBody))
          /\ UNCHANGED <<created, transports>>
       \/ /\ Handled(r)
          /\ reqs' = Replace(r, Catch([Respond(r, 200, SdkBody) EXCEPT
                                          !.started = TRUE, !.failed = "handle"]))
       \/ /\ reqs' = Replace(r, Catch([r EXCEPT !.failed = "handle"]))
          /\ IF variant = "stateless"
             THEN created' = [created EXCEPT ![r.t] = Closed(@)]
             ELSE UNCHANGED created
          /\ UNCHANGED transports
    /\ UNCHANGED <<variant, stopped, parseVars, rankVars, toolVars, findVars>>

\* handleGetOrDelete; the stateless version has app.get('/mcp') only, which
\* opens an event stream
GetOrDelete(method, sid) ==
    /\ ~stopped
    /\ Cardinality(InFlight) < MaxRequests
    /\ variant = "stateless" => method = "GET"
    /\ LET r == Request(method, sid, FALSE)
           l == Lookup(transports, sid)
       IN reqs' = Arrives(
              IF variant = "stateless" THEN Respond(r, 200, EventStream)
              ELSE IF sid = "" \/ l.kind = "undefined" THEN Respond(r, 400, TextBody)
              ELSE IF l.kind = "transport"
              THEN [r EXCEPT !.via = "session", !.t = l.t, !.pc = "handle"]
              ELSE Catch([r EXCEPT !.via = "inherited", !.failed = "handle"]))
    /\ UNCHANGED <<variant, transports, created, stopped,
                   parseVars, rankVars, toolVars, findVars>>

\* app.get("/health", ...)
Health ==
    /\ ~stopped
    /\ reqs' = Arrives(IF variant \in SessionVariants
                       THEN [Respond(Request("GET /health", "", FALSE), 200, HealthWithSessions)
                                EXCEPT !.active = Len(transports)]
                       ELSE Respond(Request("GET /health", "", FALSE), 200, HealthPlain))
    /\ UNCHANGED <<variant, transports, created, stopped,
                   parseVars, rankVars, toolVars, findVars>>

\* for (const sessionId in transports) transports[sessionId].close(): the
\* map after the onclose of each of the entries es
RECURSIVE CloseEach(_, _)
CloseEach(map, es) ==
    IF es = << >> THEN map
    ELSE CloseEach(OnClose(map, created[es[1][2]]), Tail(es))

\* shutdown: every transport of the map is closed, then the server; the
\* steps of the requests in flight at that moment are left out
Shutdown ==
    /\ ~stopped
    /\ stopped' = TRUE
    /\ created' = [t \in 1..Len(created) |->
                     IF \E i \in 1..Len(transports) : transports[i][2] = t
                     THEN Closed(created[t]) ELSE created[t]]
    /\ transports' = CloseEach(transports, transports)
    /\ UNCHANGED <<variant, reqs, parseVars, rankVars, toolVars, findVars>>

NextHttp ==
    \/ \E sid \in SessionHeaders : \E init \in BOOLEAN : Post(sid, init)
    \/ \E r \in reqs : ConnectSettles(r)
    \/ \E r \in reqs : HandleSettles(r)
    \/ \E method \in {"GET", "DELETE"} : \E sid \in SessionHeaders : GetOrDelete(method, sid)
    \/ Health
    \/ Shutdown

SpecHttp == InitHttp /\ [][NextHttp]_vars

(***************************************************************************)
(* Claims about the parsers (checked under SpecParse)                      *)
(***************************************************************************)
ValueParsers == {"parseTimeSeriesValue", "parseTimeSeriesLatestValue"}
GroupParsers == {"parseTimeSeriesGroupSum", "parseTimeSeriesGroupLatest"}
IsSeriesArray(c) == c.c = "text" /\ c.text.j = "array"

\* a series without a metric and without a value in any of its points
LacksFields(ts) ==
    /\ ~ts.metric.has
    /\ \A i \in 1..Len(ts.points.list) : ~ts.points.list[i].hasValue

\* absent, empty, not text, not JSON, not an array, or an array of such series
Malformed(c) ==
    \/ ~IsSeriesArray(c)
    \/ \A i \in 1..Len(c.text.arr) : LacksFields(c.text.arr[i])

\* C5: no parser raises, whatever the response; on an absent, empty,
\* unparseable, non-array response or an array whose elements lack the
\* metric/points/value fields the two value parsers return 0 and the two
\* group parsers return an empty mapping.
C5_MalformedGivesZeroOrEmpty ==
    parsed.fn # "none" =>
        /\ ~parsed.res.threw
        /\ Malformed(content) =>
              IF parsed.fn \in ValueParsers
              THEN parsed.res.v = 0
              ELSE parsed.res.v = EmptyMap

C5_Witness ==
    /\ parsed.fn = "parseTimeSeriesGroupLatest"
    /\ IsSeriesArray(content)
    /\ Len(content.text.arr) = 2
    /\ Malformed(content)
    /\ content.text.arr[1].points.has
    /\ parsed.res.v = EmptyMap

\* the series of the response that carry label value v under key
Carriers(c, key, v) ==
    {i \in 1..Len(c.text.arr) :
        LET ts == c.text.arr[i]
        IN /\ ts.metric.has /\ ts.metric.hasLabels
           /\ key \in DOMAIN ts.metric.labels
           /\ ts.metric.labels[key] = v}

\* the value extracted from series i taken alone
AloneValue(c, i) == parseTimeSeriesValue(ContentText(JsonArray(<<c.text.arr[i]>>))).v

RECURSIVE SumAlone(_, _)
SumAlone(c, S) ==
    IF S = {} THEN 0
    ELSE LET i == CHOOSE j \in S : TRUE IN AloneValue(c, i) + SumAlone(c, S \ {i})

\* C6: parseTimeSeriesGroupSum maps each label value to the sum of the
\* individually extracted values of the series carrying it; a series
\* lacking the label contributes to no group.
C6_GroupSumAddsPerLabel ==
    (parsed.fn = "parseTimeSeriesGroupSum" /\ IsSeriesArray(content)) =>
        /\ MapKeys(parsed.res.v) \subseteq GroupNames
        /\ \A v \in GroupNames :
              IF Carriers(content, parsed.key, v) = {}
              THEN ~MapHas(parsed.res.v, v)
              ELSE /\ MapHas(parsed.res.v, v)
                   /\ MapGet(parsed.res.v, v) = SumAlone(content, Carriers(content, parsed.key, v))

C6_Witness ==
    /\ parsed.fn = "parseTimeSeriesGroupSum"
    /\ parsed.key = "address"
    /\ IsSeriesArray(content)
    /\ Carriers(content, "address", "B") = {1, 2}
    /\ AloneValue(content, 1) = 100
    /\ AloneValue(content, 2) = 250
    /\ MapGet(parsed.res.v, "B") = 350

\* whether series i has a numeric value at points[0]
HasNumber(c, i) ==
    LET fv == FirstValue(c.text.arr[i]) IN fv.found /\ NumberIn(fv.vc).found

Lowest(S) == CHOOSE i \in S : \A j \in S : i <= j

\* C7: parseTimeSeriesGroupLatest maps each label value to the value of the
\* first series in input order that carries the label, whatever the later
\* series with that label hold.
C7_FirstSeriesWins ==
    (parsed.fn = "parseTimeSeriesGroupLatest" /\ IsSeriesArray(content)) =>
        \A v \in GroupNames :
            LET C == Carriers(content, "validator", v)
            IN C # {} =>
                 IF HasNumber(content, Lowest(C))
                 THEN /\ MapHas(parsed.res.v, v)
                      /\ MapGet(parsed.res.v, v) = AloneValue(content, Lowest(C))
                 ELSE ~MapHas(parsed.res.v, v) \/ MapGet(parsed.res.v, v) = 0

(***************************************************************************)
(* Claims about the ranking tails (checked under SpecRank)                 *)
(***************************************************************************)
RateTools == {"get_top_proposer_success_rate", "get_top_cosigner_success_rate"}

\* the success count of validator i in a success-rate ranking
SuccessOf(rankTool, i) ==
    IF rankTool = "get_top_proposer_success_rate"
    THEN rankIn.es[i].a + rankIn.es[i].b
    ELSE rankIn.es[i].a

\* x rounded to the nearest integer (halves up), x = num / den, den > 0
Nearest(num, den) ==
    CHOOSE r \in (num \div den)..(num \div den + 1) :
        /\ 2 * r * den - 2 * num > -den
        /\ 2 * r * den - 2 * num <= den

\* the validators a ranking can hold, and the value it ranks them by
Qualifying(rankTool) ==
    IF rankTool \in RateTools
    THEN {i \in 1..Len(rankIn.es) : rankIn.es[i].total > 0}
    ELSE 1..Len(rankIn.es)

DerivedValue(rankTool, i) ==
    IF rankTool \in RateTools
    THEN Nearest(10000 * SuccessOf(rankTool, i), rankIn.es[i].total)
    ELSE rankIn.es[i].total

\* C8: for every limit >= 1 each ranking tool returns min(limit, number of
\* qualifying validators) entries, all of them qualifying validators with
\* their derived value, in non-increasing order of that value, and no
\* validator left out has a larger value than one returned.
C8_TopNDescending ==
    ranked.tool # "none" =>
        LET top == ranked.top
            Q == Qualifying(ranked.tool)
        IN /\ Len(top) = Min(rankIn.limit, Cardinality(Q))
           /\ \A j \in 1..Len(top) :
                 /\ top[j].key \in Q
                 /\ top[j].val = DerivedValue(ranked.tool, top[j].key)
           /\ \A j, k \in 1..Len(top) : j < k =>
                 /\ top[j].key # top[k].key
                 /\ top[j].val >= top[k].val
           /\ \A i \in Q : \A j \in 1..Len(top) :
                 (\A k \in 1..Len(top) : top[k].key # i) =>
                     DerivedValue(ranked.tool, i) <= top[j].val

C8_Witness ==
    /\ ranked.tool = "get_top_validators_by_stake"
    /\ Len(rankIn.es) = 5
    /\ rankIn.limit = 3
    /\ Len(ranked.top) = 3
    /\ rankIn.es[1].total = 100
    /\ rankIn.es[2].total = 250
    /\ ranked.top[1].key = 2
    /\ ranked.top[3].val = 100

\* C9: the two success-rate rankings never hold a validator whose total
\* attempts are 0, whatever its success count and the limit; every validator
\* they hold carries (success / total) * 100 rounded to two decimals.
C9_NoZeroTotalRanked ==
    ranked.tool \in RateTools =>
        \A j \in 1..Len(ranked.top) :
            LET i == ranked.top[j].key
            IN /\ i \in 1..Len(rankIn.es)
               /\ rankIn.es[i].total # 0
               /\ ranked.top[j].val = Nearest(10000 * SuccessOf(ranked.tool, i), rankIn.es[i].total)

C9_Witness ==
    /\ ranked.tool = "get_top_proposer_success_rate"
    /\ Len(rankIn.es) = 3
    /\ rankIn.es[1].total = 0
    /\ SuccessOf(ranked.tool, 1) > 0
    /\ rankIn.es[2].total = 3
    /\ rankIn.limit = 3
    /\ Len(ranked.top) = 2
    /\ \E j \in 1..2 : ranked.top[j] = [key |-> 2, val |-> 6667]

(***************************************************************************)
(* Claims about one tool invocation (checked under Spec)                   *)
(***************************************************************************)
Done == pc = "done"
MainQueries == {i \in 1..Len(queries) : queries[i].phase = "main"}
\* the downstream failures of a withMcpClient call that reached its catch block
CaughtIn(ph) ==
    {i \in 1..Len(failures) :
        failures[i].phase = ph /\ failures[i].at \in {"connect", "call"}
            /\ ~failures[i].swallowed}
\* the client of the withMcpClient call ph, once created
ClientsOf(ph) == {c \in 1..Len(clients) : clients[c].phase = ph}
IsDownstreamEnvelope(env, message) ==
    /\ env.status = "failed"
    /\ env.reason.kind = "Error calling downstream MCP: "
    /\ env.reason.arg = message

\* C1: every invocation of every tool, whatever its arguments and whatever
\* the downstream service does, ends with the handler's promise resolved
\* with a success or failed envelope; the promise never rejects.
C1_AlwaysAnEnvelope ==
    Done => result.st = "resolved" /\ result.env.status \in {"success", "failed"}

\* no roster record has a field equal to the identifier, case-insensitively
NoRecordMatches(identifier, validators) ==
    \A i \in 1..Len(validators) :
        \A k \in DOMAIN validators[i].f :
            toLowerCase(validators[i].f[k]) # toLowerCase(identifier)

\* C2: for a tool wrapped by withValidatorResolution, once the roster is
\* fetched and it is empty or holds no record matching the identifier, the
\* call ends with a failed envelope, the handler was not invoked and no
\* metric query was sent.
C2_NoMatchGivesFailedEnvelope ==
    (/\ tool \in ResolvingTools
     /\ Done
     /\ ClientsOf("roster") # {}
     /\ \A c \in ClientsOf("roster") : clients[c].st = "closed"
     /\ NoRecordMatches(args.validator, roster))
    => /\ result.st = "resolved"
       /\ result.env.status = "failed"
       /\ ~vinfo.defined
       /\ MainQueries = {}
       /\ ClientsOf("main") = {}

\* C3 as the specification states it: whenever connect or a list_time_series
\* call raised during an invocation (and every close() went through), the
\* call ends with the envelope {status: "failed", reason: "Error calling
\* downstream MCP: <message>"} and the client of the failed call is closed.
C3_FailureSurfacedAsDownstreamError ==
    \A i \in 1..Len(failures) :
        (/\ Done
         /\ failures[i].at \in {"connect", "call"}
         /\ \A j \in 1..Len(failures) : failures[j].at # "close") =>
            /\ result.st = "resolved"
            /\ IsDownstreamEnvelope(result.env, failures[i].message)
            /\ \A c \in ClientsOf(failures[i].phase) : clients[c].st = "closed"

\* C3, amended: a failure of connect or of a list_time_series call inside the
\* withMcpClient call of a tool function (the deep-fallback queries of
\* get_top_validators_by_stake apart, whose failures are ignored) ends the
\* call with {status: "failed", reason: "Error calling downstream MCP:
\* <message>"}; such a failure while getValidators fetches the roster only
\* empties the roster, so list_validators and the single-validator tools
\* answer "Could not fetch validator list from the monitoring service." and
\* the ranking tools go on to their own queries.  In both cases close() is
\* called on the client of the failed call before anything is returned, and
\* the invocation rejects only if that close() itself raises.
C3_FailureSurfacedWhereCaught ==
    Done =>
        /\ \A i \in CaughtIn("main") :
              /\ \A c \in ClientsOf("main") : clients[c].st \in {"closed", "closeFailed"}
              /\ result.st = "resolved" => IsDownstreamEnvelope(result.env, failures[i].message)
              /\ result.st = "rejected" =>
                    \E c \in ClientsOf("main") : clients[c].st = "closeFailed"
        /\ \A i \in CaughtIn("roster") :
              /\ \A c \in ClientsOf("roster") : clients[c].st \in {"closed", "closeFailed"}
              /\ roster = << >>
              /\ (\A c \in ClientsOf("roster") : clients[c].st = "closed") =>
                    /\ tool \in {ListTool} \cup ResolvingTools => result = Resolved(CouldNotFetch)
                    /\ tool \in RankingTools => ClientsOf("main") # {}
              /\ (\E c \in ClientsOf("roster") : clients[c].st = "closeFailed") =>
                    result.st = "rejected"

\* a ranking tool whose roster fetch failed and whose own query failed too,
\* answering with the downstream-error envelope
C3_Witness ==
    /\ Done
    /\ tool = "get_top_validators_by_earnings"
    /\ CaughtIn("roster") # {}
    /\ \E i \in CaughtIn("main") :
          /\ failures[i].at = "call"
          /\ result = Resolved(ErrorEnvelope(Err(failures[i].message)))
    /\ \A c \in 1..Len(clients) : clients[c].st = "closed"

\* C4: every client created during an invocation has been closed when the
\* invocation's result is returned, on the success path and when connect or
\* the action failed; each withMcpClient call has a client of its own (the
\* roster fetch the first, the tool function the second), a query is sent on
\* the client of the call that sends it, and a client is created only after
\* the one before it was closed.
C4_EveryClientClosed ==
    /\ result.st = "resolved" => \A c \in 1..Len(clients) : clients[c].st = "closed"
    /\ Done => \A c \in 1..Len(clients) :
                  \/ clients[c].st = "closed"
                  \/ c = Len(clients) /\ clients[c].st = "closeFailed" /\ result.st = "rejected"
    /\ Len(clients) = (CASE phase = "none" -> 0 [] phase = "roster" -> 1 [] phase = "main" -> 2)
    /\ \A c \in 1..Len(clients) : clients[c].phase = (IF c = 1 THEN "roster" ELSE "main")
    /\ \A c \in 1..(Len(clients) - 1) : clients[c].st = "closed"
    /\ \A i \in 1..Len(queries) :
          /\ queries[i].client \in ClientsOf(queries[i].phase)
          /\ queries[i].client = (IF queries[i].phase = "roster" THEN 1 ELSE 2)

\* a call that used two clients, the second of which failed in its action,
\* and returned with both closed
C4_Witness ==
    /\ result.st = "resolved"
    /\ Len(clients) = 2
    /\ \E i \in CaughtIn("main") : failures[i].at = "call"
    /\ MainQueries # {}
    /\ \A c \in 1..Len(clients) : clients[c].st = "closed"

Succeeded == Done /\ result.st = "resolved" /\ result.env.status = "success"
\* the main queries sent for slot
QueriesFor(slot) == {i \in MainQueries : queries[i].slot = slot}
\* the tool function re-issued its queries over the last 24 hours
Widened == QueriesFor("widened") # {} \/ QueriesFor("totals24") # {}
WideningTools ==
    {"get_top_validators_by_stake", "get_top_proposer_success_rate",
     "get_top_cosigner_success_rate"}

\* C11 as the specification states it: the message of a tool taking
\* startTime and endTime says "in the last hour" exactly when neither was
\* supplied and "between <start> and <end>" exactly when one was.
C11_WordingFollowsArguments ==
    (Succeeded /\ tool \in TimeTools) =>
        /\ result.env.data.text = "in the last hour" <=> NoTimeframe(args)
        /\ result.env.data.text = "between" <=> ~NoTimeframe(args)

\* C11, amended: the message says "between <start> and <end>", with the
\* bounds of the computed window, exactly when startTime or endTime was
\* supplied; when neither was, it says "in the last hour", except that
\* get_top_validators_by_stake, get_top_proposer_success_rate and
\* get_top_cosigner_success_rate say "in the last 24 hours" once they have
\* re-issued their queries over the 24-hour window.
C11_WordingFollowsArgumentsAndWidening ==
    (Succeeded /\ tool \in TimeTools) =>
        LET d == result.env.data
            effEnd == IF Supplied(args.endTime) THEN args.endTime.t ELSE win.at
            effStart == IF Supplied(args.startTime) THEN args.startTime.t
                        ELSE effEnd - HourMinutes
        IN /\ d.text = "between" <=> ~NoTimeframe(args)
           /\ d.text = "between" => d.from = effStart /\ d.to = effEnd
           /\ d.text = "in the last 24 hours" <=> (NoTimeframe(args) /\ Widened)
           /\ d.text = "in the last hour" <=> (NoTimeframe(args) /\ ~Widened)
           /\ Widened => tool \in WideningTools

\* a stake ranking without time arguments that widened and says so
C11_Witness ==
    /\ Succeeded
    /\ tool = "get_top_validators_by_stake"
    /\ NoTimeframe(args)
    /\ QueriesFor("widened") # {}
    /\ result.env.data.text = "in the last 24 hours"

(***************************************************************************)
(* Claims about findValidator (checked under SpecFind)                     *)
(***************************************************************************)
\* record v has field k with a value that is a spelling of identifier
FieldIs(v, k, identifier) ==
    v.defined /\ k \in DOMAIN v.f /\ v.f[k] \in CaseVariations(identifier)
HasAllFields(v) == v.defined /\ \A i \in 1..Len(ValidatorFields) : ValidatorFields[i] \in DOMAIN v.f
FieldIndex(k) == CHOOSE i \in 1..Len(ValidatorFields) : ValidatorFields[i] = k
\* the scan finds a match in record v
Hit(v, identifier) ==
    \E i \in 1..Len(ValidatorFields) :
        /\ FieldIs(v, ValidatorFields[i], identifier)
        /\ \A j \in 1..(i - 1) : v.defined /\ ValidatorFields[j] \in DOMAIN v.f
\* the scan breaks on record v: it comes upon a missing field before a match
Breaks(v, identifier) == ~HasAllFields(v) /\ ~Hit(v, identifier)

\* the call returned v / two calls ended alike
Returned(r, v) == ~r.threw /\ r.v = v
Alike(r1, r2) == r1.threw = r2.threw /\ (r1.threw \/ r1.v = r2.v)

\* C12 as the specification states it, on rosters all of whose records have
\* their four fields: a lookup by any spelling of any field value of a
\* record r gives what a lookup by r's name gives; a lookup by an identifier
\* that is a spelling of no field of any record gives not-found.
C12_AnyFieldAnyCase ==
    (findOut.called /\ \A i \in 1..Len(findIn.validators) : HasAllFields(findIn.validators[i])) =>
        LET id == findIn.identifier
            vs == findIn.validators
        IN /\ \A i \in 1..Len(vs) :
                (HasAllFields(vs[i]) /\ \E k \in DOMAIN vs[i].f : FieldIs(vs[i], k, id))
                    => Alike(findOut.res, findValidator(vs[i].f["name"], vs))
           /\ (\A i \in 1..Len(vs) : \A k \in DOMAIN vs[i].f : ~FieldIs(vs[i], k, id))
                    => Returned(findOut.res, Undefined)

\* C12, amended: findValidator goes through the roster in order and returns
\* the first record one of whose fields equals the identifier ignoring case,
\* not-found when no record has one, and raises TypeError when it comes upon
\* a record that is undefined or lacks a field before it has found a match.
\* So a lookup by a field value of r, in any case, returns r itself when no
\* earlier record carries that value and no earlier record is defective; it
\* is what a lookup by r's name returns only if no earlier record carries
\* that name either.
C12_FirstRecordInRosterOrder ==
    findOut.called =>
        LET id == findIn.identifier
            vs == findIn.validators
            stops == {i \in 1..Len(vs) : Hit(vs[i], id) \/ Breaks(vs[i], id)}
            first == CHOOSE i \in stops : \A j \in stops : i <= j
        IN /\ stops = {} => Returned(findOut.res, Undefined)
           /\ (stops # {} /\ Hit(vs[first], id)) => Returned(findOut.res, vs[first])
           /\ (stops # {} /\ Breaks(vs[first], id)) => findOut.res.threw
           /\ \A i \in 1..Len(vs) :
                (/\ HasAllFields(vs[i])
                 /\ \E k \in DOMAIN vs[i].f : FieldIs(vs[i], k, id)
                 /\ \A j \in 1..(i - 1) :
                       /\ HasAllFields(vs[j])
                       /\ \A k \in DOMAIN vs[j].f :
                             ~FieldIs(vs[j], k, id) /\ ~FieldIs(vs[j], k, vs[i].f["name"]))
                => /\ Returned(findOut.res, vs[i])
                   /\ Alike(findOut.res, findValidator(vs[i].f["name"], vs))

\* a lookup by an upper-case spelling of the address of the second record,
\* which returns that record
C12_Witness ==
    /\ findOut.called
    /\ findIn.identifier = "A2"
    /\ Len(findIn.validators) = 2
    /\ findIn.validators[1] = Defined(V1)
    /\ findIn.validators[2] = Defined(V2)
    /\ Returned(findOut.res, Defined(V2))

\* C13: findValidator never raises: for every identifier and every roster,
\* also one whose records lack fields, it returns a record or not-found.
C13_FindNeverRaises ==
    findOut.called => ~findOut.res.threw

(***************************************************************************)
(* Claims about the widening of the window (under Spec)                    *)
(***************************************************************************)
\* the slot of the first and of the last query over the window of the call
BaseSlot(t) == IF t = "get_top_validators_by_stake" THEN "base" ELSE "totals"
LastBaseSlot(t) ==
    CASE t = "get_top_validators_by_stake" -> "base"
      [] t = "get_top_proposer_success_rate" -> "missed"
      [] t = "get_top_cosigner_success_rate" -> "successful"
WidenedSlots == {"widened", "totals24", "proposed24", "missed24", "successful24"}
\* the queries re-issued over the last 24 hours
WidenedQueries == {i \in MainQueries : queries[i].slot \in WidenedSlots}

\* the tool function has passed the test that decides on the widening, and
\* the query that test leads to, if any, has been sent
WideningDecided ==
    /\ tool \in WideningTools
    /\ phase = "main"
    /\ \E i \in QueriesFor(LastBaseSlot(tool)) : queries[i].st = "ok"
    /\ ~(pc = "action" /\ step.name \in {"widened", "totals24"})

\* what the first query over the window of the call returned
BaseResult == queries[CHOOSE i \in QueriesFor(BaseSlot(tool)) : TRUE].v
\* the validators of a map the ranking can place: every validator of a
\* stake map, the validators with attempts of a map of totals
QualifyingIn(t, m) ==
    IF t = "get_top_validators_by_stake" THEN 1..Len(m)
    ELSE {i \in 1..Len(m) : m[i][2] > 0}

\* C14: get_top_validators_by_stake, get_top_proposer_success_rate and
\* get_top_cosigner_success_rate re-issue their queries over the 24 hours
\* ending at the effective end if and only if neither startTime nor endTime
\* was supplied and the 1-hour window gave fewer qualifying validators than
\* limit.
C14_WidensIffTooFewQualify ==
    /\ \A i \in WidenedQueries :
           /\ tool \in WideningTools
           /\ queries[i].from = win.end - DayMinutes
           /\ queries[i].to = win.end
    /\ WideningDecided =>
           (WidenedQueries # {}
              <=> (NoTimeframe(args)
                   /\ Cardinality(QualifyingIn(tool, BaseResult)) < LimitOf(args)))

\* what the code tests: the number of keys of the 1-hour map, with or
\* without attempts
WideningFollowsKeyCount ==
    WideningDecided =>
        (WidenedQueries # {} <=> (NoTimeframe(args) /\ Len(BaseResult) < LimitOf(args)))

(***************************************************************************)
(* Claims about the merge after widening (under Spec)                      *)
(***************************************************************************)
Keys(m) == {m[i][1] : i \in 1..Len(m)}
\* what the query sent for slot returned, once it has
ResultOf(slot) == queries[CHOOSE i \in QueriesFor(slot) : TRUE].v
Answered(slot) == \E i \in QueriesFor(slot) : queries[i].st = "ok"
\* the stake ranking has widened and holds the merged map
StakeWidened ==
    tool = "get_top_validators_by_stake" /\ phase = "main" /\ Answered("widened")

\* C15: in get_top_validators_by_stake, after the widening, every validator
\* of the 1-hour result keeps its 1-hour value and a validator of the
\* 24-hour result only is added with its 24-hour value, in the map the
\* function holds and in the ranking it returns.
C15_NarrowOverridesWide ==
    StakeWidened =>
        LET narrow == ResultOf("base")
            wide == ResultOf("widened")
        IN /\ Keys(acc.latest) = Keys(narrow) \cup Keys(wide)
           /\ \A k \in Keys(narrow) : MapGet(acc.latest, k) = MapGet(narrow, k)
           /\ \A k \in Keys(wide) \ Keys(narrow) : MapGet(acc.latest, k) = MapGet(wide, k)
           /\ Succeeded =>
                \A i \in 1..Len(result.env.data.top) :
                    LET e == result.env.data.top[i]
                    IN /\ e.key \in Keys(narrow) => e.val = MapGet(narrow, e.key)
                       /\ e.key \in Keys(wide) \ Keys(narrow) => e.val = MapGet(wide, e.key)

\* a stake ranking returned after widening, with a validator that both
\* windows report with different stakes and one that the wide window adds
C15_Witness ==
    /\ StakeWidened
    /\ Succeeded
    /\ \E k \in Keys(ResultOf("base")) \cap Keys(ResultOf("widened")) :
           MapGet(ResultOf("base"), k) # MapGet(ResultOf("widened"), k)
    /\ \E i \in 1..Len(result.env.data.top) :
           result.env.data.top[i].key \in Keys(ResultOf("widened")) \ Keys(ResultOf("base"))

\* the successes the 1-hour queries reported for validator k
SuccessInHour(k) ==
    IF tool = "get_top_proposer_success_rate"
    THEN GetOr0(ResultOf("proposed"), k) + GetOr0(ResultOf("missed"), k)
    ELSE GetOr0(ResultOf("successful"), k)

\* C16: in get_top_proposer_success_rate and get_top_cosigner_success_rate,
\* after the widening, a validator that had data in the 1-hour window is
\* ranked from its 1-hour total and success counts.
C16_RateFromNarrowWindow ==
    (Succeeded /\ tool \in RateTools /\ WidenedQueries # {}) =>
        \A i \in 1..Len(result.env.data.top) :
            LET e == result.env.data.top[i]
                narrow == ResultOf("totals")
            IN (MapHas(narrow, e.key) /\ MapGet(narrow, e.key) > 0) =>
                   e.val = RateToFixed2(SuccessInHour(e.key), MapGet(narrow, e.key))

(***************************************************************************)
(* Claims about the deep fallback of the stake ranking (under Spec)        *)
(***************************************************************************)
\* the stake ranking has left the deep fallback behind
StakeRanked ==
    tool = "get_top_validators_by_stake" /\ phase = "main" /\ step = Finish
\* the individual queries, in the order they were sent
DeepQueries == SelectSeq(queries, LAMBDA q : q.phase = "main" /\ q.slot = "deep")
\* the public keys of the roster that map m lacks, in roster order
Unresolved(m) ==
    LET pubKeys == [i \in 1..Len(roster) |-> FieldOf(roster[i], "public_key")]
    IN SelectSeq(pubKeys, LAMBDA pk : ~MapHas(m, pk))
\* the individual queries went, one after the other, to the roster
\* validators the batched map lacks, over the 24 hours before the end, and
\* there was none if the batched map held limit validators
DeepQueriesAsClaimed ==
    /\ Len(acc.latest) >= LimitOf(args) => DeepQueries = << >>
    /\ Len(acc.latest) < LimitOf(args) =>
           [i \in 1..Len(DeepQueries) |-> DeepQueries[i].filter.value] = Unresolved(acc.latest)
    /\ \A i \in 1..Len(DeepQueries) :
           /\ DeepQueries[i].metric = "stake"
           /\ DeepQueries[i].filter.label = "validator"
           /\ DeepQueries[i].from = win.end - DayMinutes
           /\ DeepQueries[i].to = win.end
           /\ ~DeepQueries[i].agg.has
\* the ranking returned shows the validators of set added beside those of
\* the batched map, each with the stake its individual query returned
RankedWith(added) ==
    Succeeded =>
        LET top == result.env.data.top
            shown == {top[i].key : i \in 1..Len(top)}
            all == Keys(acc.latest) \cup {DeepQueries[i].filter.value : i \in added}
        IN /\ shown \subseteq all
           /\ Cardinality(all) <= LimitOf(args) => shown = all
           /\ \A i \in 1..Len(top) : \A j \in added :
                  DeepQueries[j].filter.value = top[i].key => top[i].val = DeepQueries[j].v

\* C17 as the specification states it, for the individual queries that
\* were answered: every validator queried is added with the stake its query
\* returned.
C17_EveryUnresolvedAdded ==
    StakeRanked =>
        /\ DeepQueriesAsClaimed
        /\ RankedWith({i \in 1..Len(DeepQueries) : DeepQueries[i].st = "ok"})

\* C17, amended: a validator queried individually is added with the stake
\* its query returned if that stake is greater than 0; it is left out if
\* the query returned 0 or no value, or failed.
C17_UnresolvedAddedIfPositive ==
    StakeRanked =>
        /\ DeepQueriesAsClaimed
        /\ RankedWith({i \in 1..Len(DeepQueries) :
                          DeepQueries[i].st = "ok" /\ DeepQueries[i].v > 0})
        /\ Keys(MergeFallbacks(acc)) =
               Keys(acc.latest) \cup
                   {DeepQueries[i].filter.value :
                       i \in {j \in 1..Len(DeepQueries) :
                                 DeepQueries[j].st = "ok" /\ DeepQueries[j].v > 0}}

\* a stake ranking returned with one validator from the batched map, one
\* added by its individual query
C17_Witness ==
    /\ StakeRanked
    /\ Succeeded
    /\ Len(acc.latest) = 1
    /\ Len(DeepQueries) = 1
    /\ DeepQueries[1].st = "ok"
    /\ DeepQueries[1].v > 0
    /\ Len(result.env.data.top) = 2

\* the individual queries that raised / that returned a stake above 0
DeepRaised == {i \in 1..Len(DeepQueries) : DeepQueries[i].st = "raised"}
DeepPositive == {i \in 1..Len(DeepQueries) : DeepQueries[i].st = "ok" /\ DeepQueries[i].v > 0}

\* C18: in the deep fallback of get_top_validators_by_stake a failure of one
\* validator's query omits that validator only: the failure does not reach
\* the catch block of withMcpClient, the validators still unresolved are
\* queried after it, the stakes collected before and after it are kept, and
\* the tool function returns a success envelope, which is the result of the
\* call unless close() raises afterwards.
C18_DeepFailureOmitsOnlyThatValidator ==
    (tool = "get_top_validators_by_stake" /\ DeepRaised # {}) =>
        /\ CaughtIn("main") = {}
        /\ acc.stakeEntries =
               [i \in 1..Cardinality(DeepPositive) |->
                   LET q == SelectSeq(DeepQueries, LAMBDA d : d.st = "ok" /\ d.v > 0)[i]
                   IN <<q.filter.value, q.v>>]
        /\ \A i \in DeepRaised : ~MapHas(MergeFallbacks(acc), DeepQueries[i].filter.value)
        /\ pc = "action" => step.name = "deep" /\ step.i > Len(DeepQueries)
        /\ StakeRanked =>
               /\ DeepQueriesAsClaimed
               /\ pending.env.status = "success"
               /\ RankedWith(DeepPositive)
        /\ Done =>
               /\ StakeRanked
               /\ result.st = "resolved" => result.env = pending.env
               /\ result.st = "rejected" =>
                      \E c \in ClientsOf("main") : clients[c].st = "closeFailed"

\* a stake ranking whose first individual query raised and whose second
\* gave the only validator of the ranking returned
C18_Witness ==
    /\ Succeeded
    /\ tool = "get_top_validators_by_stake"
    /\ Len(DeepQueries) = 2
    /\ DeepQueries[1].st = "raised"
    /\ DeepQueries[2].st = "ok"
    /\ Len(result.env.data.top) = 1
    /\ result.env.data.top[1].key = DeepQueries[2].filter.value
    /\ result.env.data.top[1].val = DeepQueries[2].v

(***************************************************************************)
(* Claims about the joined queries (under Spec)                            *)
(***************************************************************************)
\* the joined queries that raised / that were answered
JoinRaised == {i \in MainQueries : queries[i].st = "raised"}
JoinAnswered == {i \in MainQueries : queries[i].st = "ok"}

\* C19: in get_validator_earnings_breakdown, get_proposer_success_rate and
\* get_cosigner_success_rate all queries are sent before any is awaited,
\* and once one of them has failed, in whatever order the others complete,
\* the tool function is left at once with the failure: the envelope it
\* hands back is the downstream-error envelope of that failure, no later
\* completion is taken into account, and the call never returns a success
\* envelope.
C19_JoinFailsTogether ==
    (tool \in ParallelTools /\ phase = "main") =>
        /\ MainQueries # {} => Cardinality(MainQueries) = Len(SlotsOf(tool))
        /\ JoinRaised # {} =>
               /\ Cardinality(JoinRaised) = 1
               /\ pc \in {"close", "return", "done"}
               /\ \E j \in CaughtIn("main") :
                      IsDownstreamEnvelope(pending.env, failures[j].message)
               /\ result.env.status # "success"
               /\ result.st = "resolved" => result.env = pending.env
               /\ result.st = "rejected" =>
                      \E c \in ClientsOf("main") : clients[c].st = "closeFailed"

\* a proposer success rate whose total was answered first, whose count of
\* missed proposals then failed and whose third query was still under way:
\* the call returned the failure
C19_Witness ==
    /\ Done
    /\ tool = "get_proposer_success_rate"
    /\ \E i \in JoinAnswered : queries[i].slot = "total" /\ queries[i].v > 0
    /\ \E i \in JoinRaised : queries[i].slot = "missed"
    /\ inflight = {"proposed"}
    /\ result.st = "resolved"
    /\ result.env.status = "failed"

(***************************************************************************)
(* Claims about the aggregation of the queries (under Spec)                *)
(***************************************************************************)
CounterMetrics == {"earnings", "proposals", "cosignatures"}
\* query q asks for one bucket as long as its interval, aligned by aligner
SingleBucket(q, aligner) ==
    /\ q.agg.has
    /\ q.agg.aligner = aligner
    /\ q.agg.period = PeriodSeconds(q.from, q.to)

\* C20: every query on a counter (earnings, proposals, cosignatures), the
\* queries re-issued over the widened window included, uses ALIGN_DELTA with
\* an alignmentPeriod equal to the length of its own interval; the roster
\* query uses ALIGN_MEAN with an alignmentPeriod equal to the length of its
\* interval.
C20_SingleBucketAlignment ==
    \A i \in 1..Len(queries) :
        /\ queries[i].metric \in CounterMetrics => SingleBucket(queries[i], "ALIGN_DELTA")
        /\ queries[i].metric = "validators" => SingleBucket(queries[i], "ALIGN_MEAN")

\* what holds: the rule, except for the re-issued queries, which span 24
\* hours and keep the alignmentPeriod of the window of the call
SingleBucketOutsideWidening ==
    \A i \in 1..Len(queries) :
        LET q == queries[i]
        IN /\ (q.metric \in CounterMetrics /\ q.slot \notin WidenedSlots) =>
                  SingleBucket(q, "ALIGN_DELTA")
           /\ q.metric = "validators" => SingleBucket(q, "ALIGN_MEAN")
           /\ (q.metric \in CounterMetrics /\ q.slot \in WidenedSlots) =>
                  /\ q.agg.has /\ q.agg.aligner = "ALIGN_DELTA"
                  /\ q.agg.period = PeriodSeconds(win.start, win.end)
                  /\ q.agg.period = PeriodSeconds(0, HourMinutes)
                  /\ PeriodSeconds(q.from, q.to) = PeriodSeconds(0, DayMinutes)

(***************************************************************************)
(* Claims about the single-validator tools (under Spec)                    *)
(***************************************************************************)
\* the number a value container holds: doubleValue if it is a number,
\* else int64Value as a number, else none (0)
NumberHeld(pt) ==
    IF pt.dv.t = "number" THEN pt.dv.n
    ELSE IF pt.iv.t # "absent" THEN NumberOfDigits(pt.iv.d)
    ELSE 0
\* the first point's value of series ts, 0 if it has none
FirstPointOf(ts) ==
    IF ts.points.has /\ Len(ts.points.list) > 0 /\ ts.points.list[1].hasValue
    THEN NumberHeld(ts.points.list[1])
    ELSE 0
\* the series of a reply, none if it is not a text part holding an array
SeriesIn(c) == IF c.c = "text" /\ c.text.j = "array" THEN c.text.arr ELSE << >>
\* the value of a reply in latest mode: that of its first series
FirstSeriesValue(c) == IF SeriesIn(c) = << >> THEN 0 ELSE FirstPointOf(SeriesIn(c)[1])

\* C21: get_validator_stake sends one query, over the five minutes before
\* the instant it reads the clock, without aggregation, filtered on the
\* public key of the validator resolved; the stake it returns is the latest
\* value of the first series of the reply, whatever the other series hold.
C21_StakeIsLatestOfFiveMinutes ==
    (tool = "get_validator_stake" /\ phase = "main") =>
        /\ win.at \in Now0..now
        /\ win.start = win.at - StakeMinutes
        /\ win.end = win.at
        /\ Cardinality(MainQueries) <= 1
        /\ \A i \in MainQueries :
               LET q == queries[i]
               IN /\ q.metric = "stake"
                  /\ q.filter = FilterOn("validator", FieldOf(vinfo, "public_key"), "")
                  /\ q.from = win.at - StakeMinutes
                  /\ q.to = win.at
                  /\ ~q.agg.has
                  /\ q.st = "ok" => q.v = FirstSeriesValue(q.reply)
                  /\ Succeeded => result.env.data.value = FirstSeriesValue(q.reply)
        /\ Succeeded => MainQueries # {}

\* a stake returned from a reply with two series for the validator: the
\* value of the first, not the sum
C21_Witness ==
    /\ Succeeded
    /\ tool = "get_validator_stake"
    /\ \E i \in MainQueries :
           /\ queries[i].reply = DuplicateReply
           /\ result.env.data.value = 250

\* the first-point values of the series s, added up
RECURSIVE SumOfFirstPoints(_)
SumOfFirstPoints(s) ==
    IF s = << >> THEN 0 ELSE FirstPointOf(s[1]) + SumOfFirstPoints(Tail(s))
\* the count a reply stands for; none (0) when it has no text part or its
\* text is not an array of series
CountIn(c) == SumOfFirstPoints(SeriesIn(c))
SingleRateTools == {"get_proposer_success_rate", "get_cosigner_success_rate"}
\* the reply to the query of slot, once every query of the join was answered
ReplyTo(slot) == queries[CHOOSE i \in QueriesFor(slot) : TRUE].reply
JoinFulfilled ==
    /\ phase = "main"
    /\ step = Finish
    /\ \A i \in MainQueries : queries[i].st = "ok"
\* the successes counted by the replies
SuccessesReplied ==
    IF tool = "get_proposer_success_rate"
    THEN CountIn(ReplyTo("proposed")) + CountIn(ReplyTo("missed"))
    ELSE CountIn(ReplyTo("successful"))
\* the rate the replies stand for: a percentage when the total is positive,
\* not applicable when it is 0
RateReplied ==
    IF CountIn(ReplyTo("total")) > 0
    THEN RateToFixed2(SuccessesReplied, CountIn(ReplyTo("total")))
    ELSE NotApplicable

\* C22: once the queries of get_proposer_success_rate or
\* get_cosigner_success_rate were all answered, the tool function returns a
\* success envelope whose rate is not applicable when the total counted is 0
\* (so for an empty and for a malformed total reply) and the percentage of
\* the successes in the total only when the total is greater than 0; the
\* handler returns that envelope unless close() raised.
C22_ZeroTotalNotApplicable ==
    (tool \in SingleRateTools /\ JoinFulfilled) =>
        /\ pending.env.status = "success"
        /\ pending.env.data.value = RateReplied
        /\ (pending.env.data.value = NotApplicable) <=> (CountIn(ReplyTo("total")) = 0)
        /\ ReplyTo("total") \in {ContentEmpty, ContentText(JsonBad)} =>
               pending.env.data.value = NotApplicable
        /\ Done => \/ result = Resolved(pending.env)
                   \/ /\ result.st = "rejected"
                      /\ clients[Cur].st = "closeFailed"

\* a rate returned as not applicable because the total reply was malformed
\* although the successes were counted
C22_Witness ==
    /\ Succeeded
    /\ tool = "get_cosigner_success_rate"
    /\ ReplyTo("total") = ContentText(JsonBad)
    /\ CountIn(ReplyTo("successful")) = 100
    /\ result.env.data.value = NotApplicable

(***************************************************************************)
(* Further claims about the two value parsers (under SpecParse)            *)
(***************************************************************************)
\* the response cut down to its first series
FirstOnly(c) == ContentText(JsonArray(<<c.text.arr[1]>>))

\* C24: parseTimeSeriesLatestValue returns the points[0] value of the first
\* series of the response: the result is the one the first series alone
\* gives, and it is 0 when the first series has no point or no value,
\* whatever the series after it hold.
C24_LatestReadsFirstSeriesOnly ==
    parsed.fn = "parseTimeSeriesLatestValue" =>
        /\ parsed.res = Ret(FirstSeriesValue(content))
        /\ (IsSeriesArray(content) /\ Len(content.text.arr) > 0) =>
               /\ parsed.res = parseTimeSeriesLatestValue(FirstOnly(content))
               /\ ~FirstValue(content.text.arr[1]).found => parsed.res.v = 0

\* a first series without a value at points[0], followed by a series
\* holding 250: the result is 0
C24_Witness ==
    /\ parsed.fn = "parseTimeSeriesLatestValue"
    /\ IsSeriesArray(content)
    /\ Len(content.text.arr) = 2
    /\ content.text.arr[1].points = PointsOf(<<PointNoValue, Double(100)>>)
    /\ content.text.arr[2].points = PointsOf(<<Double(250)>>)
    /\ parsed.res.v = 0

\* C25: parseTimeSeriesValue returns the sum over all series of the
\* response of the value at points[0] of each: doubleValue when it is a
\* number (int64Value present or not), else int64Value as a number, else 0;
\* no point after the first is read.
C25_SumOfFirstPoints ==
    parsed.fn = "parseTimeSeriesValue" => parsed.res = Ret(CountIn(content))

\* a series with doubleValue 100 and int64Value "7" at points[0] and a
\* series with the points 100 and 250: the sum is 200
C25_Witness ==
    /\ parsed.fn = "parseTimeSeriesValue"
    /\ IsSeriesArray(content)
    /\ Len(content.text.arr) = 2
    /\ content.text.arr[1].points =
           PointsOf(<<PointOf([t |-> "number", n |-> 100], [t |-> "digits", d |-> <<7>>])>>)
    /\ content.text.arr[2].points = PointsOf(<<Double(100), Double(250)>>)
    /\ parsed.res.v = 200

(***************************************************************************)
(* Precedence in findValidator (under SpecFind)                            *)
(***************************************************************************)
\* the records whose name is a spelling of identifier
NamedLike(vs, identifier) == {i \in 1..Len(vs) : FieldIs(vs[i], "name", identifier)}
\* no record before the i-th ends the scan
NoneStopsBefore(vs, identifier, i) ==
    \A h \in 1..(i - 1) : ~Hit(vs[h], identifier) /\ ~Breaks(vs[h], identifier)

\* C26 as the specification states it, on rosters all of whose records have
\* their four fields: when some record matches the identifier by name, a
\* record matched by name is returned, wherever in the roster it stands.
C26_NameMatchPreferred ==
    (findOut.called /\ \A i \in 1..Len(findIn.validators) : HasAllFields(findIn.validators[i])) =>
        (NamedLike(findIn.validators, findIn.identifier) # {} =>
            \E j \in NamedLike(findIn.validators, findIn.identifier) :
                Returned(findOut.res, findIn.validators[j]))

\* C26, amended: the order of the fields decides nothing between records.
\* A record matched by name is returned when no record before it in the
\* roster matches by any field or is defective; when a record before it
\* matches by public_key, address or zil_address, and is the first to end
\* the scan, that earlier record is returned; when the first to end the scan
\* is a defective record, TypeError is raised.
C26_RosterOrderDecides ==
    findOut.called =>
        LET id == findIn.identifier
            vs == findIn.validators
        IN \A j \in NamedLike(vs, id) :
              /\ NoneStopsBefore(vs, id, j) => Returned(findOut.res, vs[j])
              /\ \A i \in 1..(j - 1) :
                    /\ (Hit(vs[i], id) /\ NoneStopsBefore(vs, id, i))
                           => Returned(findOut.res, vs[i])
                    /\ (Breaks(vs[i], id) /\ NoneStopsBefore(vs, id, i))
                           => findOut.res.threw

\* a lookup by pk1 in a roster whose first record has the public key pk1
\* and whose second has the name Pk1: the first is returned
C26_Witness ==
    /\ findOut.called
    /\ findIn.identifier = "pk1"
    /\ findIn.validators = <<Defined(V1), Defined(V3)>>
    /\ NamedLike(findIn.validators, "pk1") = {2}
    /\ Returned(findOut.res, Defined(V1))

(***************************************************************************)
(* Enrichment of a ranking when the roster lacks the entity (under Spec)   *)
(***************************************************************************)
\* the roster field a ranking tool groups and joins by
JoinField(t) == IF t = "get_top_validators_by_earnings" THEN "address" ELSE "public_key"
\* no roster record is filed under key
Unmatched(key) ==
    \A i \in 1..Len(roster) : ~roster[i].defined \/ FieldOf(roster[i], JoinField(tool)) # key
\* the value the tool function derived for key from the replies it holds
DerivedFor(key) ==
    CASE tool = "get_top_validators_by_earnings" -> GetOr0(acc.totals, key)
      [] tool = "get_top_validators_by_stake" -> GetOr0(MergeFallbacks(acc), key)
      [] tool = "get_top_proposer_success_rate" ->
           RateToFixed2(GetOr0(acc.proposed, key) + GetOr0(acc.missed, key),
                        GetOr0(acc.totals, key))
      [] tool = "get_top_cosigner_success_rate" ->
           RateToFixed2(GetOr0(acc.successful, key), GetOr0(acc.totals, key))
\* the ranking tool has built its envelope
RankingBuilt == tool \in RankingTools /\ phase = "main" /\ step = Finish
\* the roster fetch of a ranking tool is over, or the call ended in it
RosterFetched == tool \in RankingTools /\ Len(clients) > 0 /\ (phase = "main" \/ Done)

\* C27: a ranking tool never fails because of its roster: whatever the
\* roster fetch did, the tool function goes on to its own queries, and once
\* these were answered it returns a success envelope in which an entity
\* that no roster record is filed under has its derived value and undefined
\* name and address fields.
C27_RosterNeverFailsRanking ==
    RosterFetched =>
        /\ phase = "main"
        /\ RankingBuilt =>
              /\ pending.env.status = "success"
              /\ \A i \in 1..Len(pending.env.data.top) :
                    LET e == pending.env.data.top[i]
                    IN Unmatched(e.key) =>
                          /\ e.val = DerivedFor(e.key)
                          /\ e.name = "undefined"
                          /\ e.zil_address = "undefined"
                          /\ e.other = "undefined"

\* what holds instead: the call ends in the roster fetch exactly when
\* close() raised on the roster client or the roster holds an undefined
\* record, and then it is rejected; otherwise an envelope built shows every
\* unmatched entity with its derived value and undefined fields.
UnmatchedKeepUndefinedUnlessRejected ==
    RosterFetched =>
        /\ phase = "roster" =>
              /\ result.st = "rejected"
              /\ \/ clients[Cur].st = "closeFailed"
                 \/ \E i \in 1..Len(roster) : ~roster[i].defined
        /\ phase = "main" => \A i \in 1..Len(roster) : roster[i].defined
        /\ RankingBuilt =>
              /\ pending.env.status = "success"
              /\ \A i \in 1..Len(pending.env.data.top) :
                    LET e == pending.env.data.top[i]
                    IN Unmatched(e.key) =>
                          /\ e.val = DerivedFor(e.key)
                          /\ e.name = "undefined"
                          /\ e.zil_address = "undefined"
                          /\ e.other = "undefined"

\* a ranking returned after the roster fetch failed: its entities have no
\* roster record
UnmatchedRanked ==
    /\ Succeeded
    /\ tool = "get_top_validators_by_earnings"
    /\ roster = << >>
    /\ Len(result.env.data.top) = 1
    /\ result.env.data.top[1].name = "undefined"
    /\ result.env.data.top[1].val = 100

(***************************************************************************)
(* The deep fallback under an explicit time range (under Spec)             *)
(***************************************************************************)
\* the public keys the individual queries were sent for, in order
DeepKeys == [i \in 1..Len(DeepQueries) |-> DeepQueries[i].filter.value]
\* the validators the individual queries have collected so far
CollectedBy(n) == {i \in 1..n : DeepQueries[i].st = "ok" /\ DeepQueries[i].v > 0}

\* C30: when get_top_validators_by_stake has built its ranking, it has sent
\* individual queries exactly when the batched map held fewer validators
\* than the limit, with or without startTime/endTime from the caller (with
\* either of them the 24-hour widening query was not sent); each individual
\* query covers the 24 hours up to the end of the window of the call; and
\* there is one for every roster validator the batched map lacks, however
\* many validators the earlier ones had already collected.
C30_DeepFallbackAlsoWithTimeframe ==
    StakeRanked =>
        /\ ~NoTimeframe(args) => QueriesFor("widened") = {}
        /\ Len(acc.latest) >= LimitOf(args) => DeepQueries = << >>
        /\ Len(acc.latest) < LimitOf(args) => DeepKeys = Unresolved(acc.latest)
        /\ \A i \in 1..Len(DeepQueries) :
               /\ DeepQueries[i].from = win.end - DayMinutes
               /\ DeepQueries[i].to = win.end
               /\ Supplied(args.endTime) => DeepQueries[i].to = args.endTime.t

\* a ranking for limit 1 and an explicit endTime: the batched map was
\* empty, the first individual query collected a validator and the second
\* was sent all the same
C30_Witness ==
    /\ StakeRanked
    /\ Succeeded
    /\ Supplied(args.endTime)
    /\ LimitOf(args) = 1
    /\ acc.latest = EmptyMap
    /\ Len(DeepQueries) = 2
    /\ CollectedBy(1) = {1}
    /\ DeepQueries[2].st = "ok"

(***************************************************************************)
(* Claims about HTTP mode (under SpecHttp)                                 *)
(***************************************************************************)
\* the requests whose response is settled
AnsweredRequests == {r \in reqs : r.pc = "done"}
\* the POST requests that were given to a transport of the server and whose
\* handling raised, in server.connect or in transport.handleRequest
FailedPosts ==
    {r \in AnsweredRequests : r.method = "POST" /\ r.via \in {"new", "session"} /\ r.failed # "none"}

\* C23: a POST /mcp whose handling raised before any response was sent is
\* answered with a JSON-RPC error object; one whose handling raised after
\* the response had started gets no second response.
C23_FailureGivesJsonRpcError ==
    \A r \in FailedPosts :
        IF r.started THEN r.writes = 1
        ELSE r.writes = 1 /\ r.body.kind = "jsonrpc-error" /\ r.body.code = "-32603"

\* what holds instead: the stateless version answers such a failure with
\* the JSON-RPC error -32603 and status 500; the keep-alive version answers
\* a failure of handleRequest with a line of text; the session version
\* writes nothing; in both of these a failure of server.connect rejects the
\* handler; no version writes a second response.
FailureAnswerByVersion ==
    \A r \in FailedPosts :
        /\ r.writes <= 1
        /\ r.started => r.writes = 1 /\ r.body = SdkBody
        /\ ~r.started =>
              CASE variant = "stateless" ->
                     r.status = 500 /\ r.body = JsonRpcError("-32603") /\ ~r.rejected
                [] r.failed = "connect" ->
                     r.rejected /\ r.body \in {NoBody, ErrorPage}
                [] variant = "keepalive" -> r.status = 500 /\ r.body = TextBody
                [] OTHER -> r.writes = 0 /\ r.body = NoBody

\* the requests to /mcp
McpRequests == {r \in reqs : r.method \in {"POST", "GET", "DELETE"}}
\* the session ids issued so far
Issued == {created[t].sessionId : t \in 1..Len(created)} \ {""}
\* POST without mcp-session-id whose body is an initialize request
IsInitialize(r) == r.method = "POST" /\ r.sid = "" /\ r.init
\* the answer to a request that is given to no transport
Refused(r) ==
    /\ r.pc = "done"
    /\ r.t = 0
    /\ r.status = 400
    /\ r.writes = 1
    /\ r.method = "POST" => r.body = JsonRpcError("-32000")

\* C28: with a session map, a request reaches transport.handleRequest only
\* through the transport its mcp-session-id names in the map, or as a POST
\* without mcp-session-id carrying an initialize request, for which a
\* transport is created; every other request is answered 400 (a POST with
\* the JSON-RPC error -32000) and no transport is created or called for it.
C28_OnlySessionOrInitializeReachTransport ==
    variant \in SessionVariants =>
        \A r \in McpRequests :
            /\ r.via = "session" => r.sid # "" /\ created[r.t].sessionId = r.sid
            /\ r.via = "new" => IsInitialize(r)
            /\ r.via \notin {"session", "new"} => Refused(r)
            /\ (r.sid \notin Issued /\ ~IsInitialize(r)) => Refused(r)

\* what holds instead: the same, but for a request whose mcp-session-id
\* names a property the map inherits; no transport is created for it, the
\* call of handleRequest on the inherited value raises, and the request is
\* answered with a line of text and status 500 by the keep-alive version
\* and not at all by the session version.
RefusedUnlessInherited ==
    variant \in SessionVariants =>
        \A r \in McpRequests :
            /\ r.via = "session" => r.sid # "" /\ created[r.t].sessionId = r.sid
            /\ r.via = "new" => IsInitialize(r)
            /\ r.via = "none" => Refused(r)
            /\ r.via = "inherited" <=> r.sid \in PrototypeKeys
            /\ r.via = "inherited" =>
                  /\ r.t = 0
                  /\ r.pc = "done"
                  /\ IF variant = "keepalive" THEN r.status = 500 /\ r.body = TextBody
                     ELSE r.writes = 0

\* the transports that have reported their session and have not closed
Live == {t \in 1..Len(created) : created[t].st = "initialized"}
\* the ids of the transports that have closed
ClosedIds == {created[t].sessionId : t \in {u \in 1..Len(created) : created[u].st = "closed"}}

\* the session map holds the live sessions, each under its own id
MapHoldsLiveSessions ==
    /\ Len(transports) = Cardinality(MapKeys(transports))
    /\ MapKeys(transports) = {created[t].sessionId : t \in Live}
    /\ Len(transports) = Cardinality(Live)
    /\ \A i \in 1..Len(transports) :
           /\ transports[i][2] \in Live
           /\ created[transports[i][2]].sessionId = transports[i][1]
    /\ \A id \in ClosedIds : ~MapHas(transports, id)
\* a request that arrives with the id of a closed transport is answered 400
\* at once; a reply of /health reports the number of live sessions
ClosedIdRefusedAndHealthCounts ==
    variant \in SessionVariants =>
        /\ \A r \in reqs' \ reqs :
               (InFlight \subseteq reqs' /\ r.sid \in ClosedIds) => Refused(r)
        /\ \A r \in reqs' \ reqs :
               r.method = "GET /health" =>
                   r.body = HealthWithSessions /\ r.active = Cardinality(Live)

\* C29: with a session map, the keys of the map are at all times the
\* session ids of the transports that have reported session-initialized and
\* have not closed; a request arriving with the id of a closed transport is
\* answered 400; /health reports the number of those transports.
C29_MapIsLiveSessions ==
    /\ [](variant \in SessionVariants => MapHoldsLiveSessions)
    /\ [][ClosedIdRefusedAndHealthCounts]_vars

\* two sessions were initialized and the first was closed by DELETE: the
\* map holds the second only and a POST with the id of the first has been
\* answered 400
C29_Witness ==
    /\ variant \in SessionVariants
    /\ Len(created) = 2
    /\ created[1].st = "closed"
    /\ created[1].sessionId = "s1"
    /\ transports = <<<<"s2", 2>>>>
    /\ \E r \in AnsweredRequests : r.method = "POST" /\ r.sid = "s1" /\ r.status = 400

====
